---- MODULE Spec2Model ----
(***************************************************************************)
(* Traffic simulator core: containers (estructuras_datos.py), graph model  *)
(* (grafo_trafico.py), Dijkstra path engine (algoritmos_dijkstra.py) and   *)
(* the vehicle / simulation engine (vehiculos_simulacion.py).              *)
(*                                                                         *)
(* Conventions                                                             *)
(*  - Python's None is the record None; an optional value v is Some(v).    *)
(*  - A Python exception leaving an operation is recorded in the variable  *)
(*    excepcion; the state keeps every assignment made before the raise,   *)
(*    as it does for a caller that catches the exception.                  *)
(*  - Objects with identity (edges, vehicles) live in a heap keyed by an   *)
(*    object id; containers hold the ids.                                  *)
(*  - Weights are exact rationals with denominator                         *)
(*    Den = 50 * max(capacidad_maxima, 1); the model stores numerators.    *)
(***************************************************************************)
EXTENDS Integers, Sequences, FiniteSets, TLC

\* ------------------------------------------------------------------------
\* Python values
\* ------------------------------------------------------------------------
None == [hay |-> FALSE]
Some(v) == [hay |-> TRUE, val |-> v]

\* float('inf'): larger than every finite distance the bounded model builds
Infinito == 1000000000

Max(a, b) == IF a >= b THEN a ELSE b
Min(a, b) == IF a <= b THEN a ELSE b

\* ------------------------------------------------------------------------
\* ListaEnlazada: the chain of Nodo cells is the sequence of their datos
\* ------------------------------------------------------------------------
LE_nueva == << >>

LE_agregar(l, dato) == Append(l, dato)

RECURSIVE LE_indice(_, _, _)
\* position of the first cell whose dato equals dato, 0 when there is none
LE_indice(l, dato, i) ==
    IF i > Len(l) THEN 0
    ELSE IF l[i] = dato THEN i
    ELSE LE_indice(l, dato, i + 1)

LE_buscar(l, dato) == LE_indice(l, dato, 1) # 0

\* eliminar: unlinks the first cell equal to dato; the list is unchanged
\* (and the call returns False) when there is none
LE_eliminar(l, dato) ==
    LET i == LE_indice(l, dato, 1)
    IN IF i = 0 THEN l
       ELSE [j \in 1..(Len(l) - 1) |-> IF j < i THEN l[j] ELSE l[j + 1]]

LE_obtener_lista(l) == l

LE_obtener_tamano(l) == Len(l)

\* ------------------------------------------------------------------------
\* HashTable: capacidad, tamano and the buckets (bucket i of the code is
\* buckets[i + 1]); every bucket is a ListaEnlazada of <<clave, valor>>
\* ------------------------------------------------------------------------
CapacidadInicial == 16

HT_nueva == [capacidad |-> CapacidadInicial,
             tamano |-> 0,
             buckets |-> [i \in 1..CapacidadInicial |-> LE_nueva]]

\* _hash for the integer keys the program uses: hash(clave) % capacidad
HT_hash(capacidad, clave) == clave % capacidad

RECURSIVE HT_pos(_, _, _)
\* position in a bucket of the first pair with this key, 0 when absent
HT_pos(bucket, clave, i) ==
    IF i > Len(bucket) THEN 0
    ELSE IF bucket[i][1] = clave THEN i
    ELSE HT_pos(bucket, clave, i + 1)

HT_bucket(t, clave) == t.buckets[HT_hash(t.capacidad, clave) + 1]

HT_tiene(t, clave) == HT_pos(HT_bucket(t, clave), clave, 1) # 0

\* obtener: the stored value, None when the key is absent
HT_obtener(t, clave) ==
    LET b == HT_bucket(t, clave)
        p == HT_pos(b, clave, 1)
    IN IF p = 0 THEN None ELSE Some(b[p][2])

\* the value stored under a key that is known to be present
HT_valor(t, clave) == HT_obtener(t, clave).val

\* contiene: obtener(clave) is not None
HT_contiene(t, clave) == HT_obtener(t, clave) # None

RECURSIVE HT_aplanar(_, _)
\* the pairs of buckets i..capacidad in enumeration order
HT_aplanar(buckets, i) ==
    IF i > Len(buckets) THEN << >>
    ELSE buckets[i] \o HT_aplanar(buckets, i + 1)

HT_pares(t) == HT_aplanar(t.buckets, 1)

HT_obtener_claves(t) == [i \in 1..Len(HT_pares(t)) |-> HT_pares(t)[i][1]]

HT_obtener_valores(t) == [i \in 1..Len(HT_pares(t)) |-> HT_pares(t)[i][2]]

\* bucket.agregar((clave, valor)); tamano += 1 -- no lookup, no resize
HT_agregar_par(t, clave, valor) ==
    LET i == HT_hash(t.capacidad, clave) + 1
    IN [t EXCEPT !.buckets[i] = LE_agregar(@, <<clave, valor>>),
                 !.tamano = @ + 1]

RECURSIVE HT_reinsertar(_, _, _)
\* _redimensionar's loop: insertar of every old pair into the new buckets
\* (the keys of the old table are distinct, so each takes the append path;
\* the nested _redimensionar never fires, the new table being at most
\* 3/8 full)
HT_reinsertar(t, pares, i) ==
    IF i > Len(pares) THEN t
    ELSE HT_reinsertar(HT_agregar_par(t, pares[i][1], pares[i][2]), pares, i + 1)

HT_redimensionar(t) ==
    IF 4 * t.tamano >= 3 * t.capacidad
    THEN HT_reinsertar([capacidad |-> 2 * t.capacidad,
                        tamano |-> 0,
                        buckets |-> [i \in 1..(2 * t.capacidad) |-> LE_nueva]],
                       HT_pares(t), 1)
    ELSE t

\* insertar returns [error, t]. On a key that is already present the code
\* runs  par[1] = valor  on the stored tuple, which raises TypeError and
\* leaves the table as it was.
HT_insertar(t, clave, valor) ==
    IF HT_tiene(t, clave)
    THEN [error |-> TRUE, t |-> t]
    ELSE [error |-> FALSE, t |-> HT_redimensionar(HT_agregar_par(t, clave, valor))]

\* eliminar: bucket.eliminar(par) of the first pair with this key
HT_eliminar(t, clave) ==
    LET i == HT_hash(t.capacidad, clave) + 1
        b == t.buckets[i]
        p == HT_pos(b, clave, 1)
    IN IF p = 0 THEN t
       ELSE [t EXCEPT !.buckets[i] = LE_eliminar(b, b[p]),
                      !.tamano = @ - 1]

\* The object stored under clave (a ListaEnlazada) is mutated in place: the
\* pair keeps its bucket and position and now shows the object's new content
HT_mutar(t, clave, valor) ==
    LET i == HT_hash(t.capacidad, clave) + 1
        p == HT_pos(t.buckets[i], clave, 1)
    IN [t EXCEPT !.buckets[i][p] = <<clave, valor>>]

\* ------------------------------------------------------------------------
\* ColaPrioridad: binary min-heap of <<prioridad, elemento>>; heap[i] of the
\* code is heap[i + 1] here, and tamano is Len(heap)
\* ------------------------------------------------------------------------
CP_nueva == << >>

CP_padre(i) == (i - 1) \div 2
CP_hijo_izq(i) == 2 * i + 1
CP_hijo_der(i) == 2 * i + 2

CP_intercambiar(heap, i, j) ==
    [heap EXCEPT ![i + 1] = heap[j + 1], ![j + 1] = heap[i + 1]]

RECURSIVE CP_heapify_up(_, _)
CP_heapify_up(heap, i) ==
    IF i > 0 /\ heap[CP_padre(i) + 1][1] > heap[i + 1][1]
    THEN CP_heapify_up(CP_intercambiar(heap, i, CP_padre(i)), CP_padre(i))
    ELSE heap

RECURSIVE CP_heapify_down(_, _)
CP_heapify_down(heap, i) ==
    IF CP_hijo_izq(i) < Len(heap)
    THEN LET izq == CP_hijo_izq(i)
             der == CP_hijo_der(i)
             hijo_min == IF der < Len(heap) /\ heap[der + 1][1] < heap[izq + 1][1]
                         THEN der ELSE izq
         IN IF heap[i + 1][1] <= heap[hijo_min + 1][1]
            THEN heap
            ELSE CP_heapify_down(CP_intercambiar(heap, i, hijo_min), hijo_min)
    ELSE heap

CP_insertar(heap, prioridad, elemento) ==
    CP_heapify_up(Append(heap, <<prioridad, elemento>>), Len(heap))

CP_es_vacia(heap) == Len(heap) = 0

\* extraer_min on a non-empty heap: [min, heap]
CP_extraer_min(heap) ==
    IF Len(heap) = 1
    THEN [min |-> heap[1], heap |-> << >>]
    ELSE LET ultimo == heap[Len(heap)]
             resto == SubSeq(heap, 1, Len(heap) - 1)
         IN [min |-> heap[1],
             heap |-> CP_heapify_down([resto EXCEPT ![1] = ultimo], 0)]

\* ------------------------------------------------------------------------
\* Bounds of the model and inputs of the operations
\* ------------------------------------------------------------------------
\* agregar_nodo is called at most MaxNodos times
MaxNodos == 2
\* at most MaxAristas edge records are created
MaxAristas == 2
\* crear_vehiculo creates at most MaxVehiculos Vehiculo objects
MaxVehiculos == 1
\* ticks are taken while tiempo_simulacion is below MaxTiempo
MaxTiempo == 6

\* coordinates offered to agregar_nodo; every distance between two of them
\* is a whole number (0 or 250)
Coords == {<<0, 0>>, <<150, 200>>}
\* explicit weights offered to agregar_arista (1 is also the default value
\* of the parameter)
Pesos == {1, 3}
\* delta_tiempo_real offered to MotorSimulacion.actualizar
DeltaTs == {6, 12}
\* velocities random.uniform(30, 60) may draw: the two ends of the range
Velocidades == {30, 60}

\* ------------------------------------------------------------------------
\* NodoGrafo, AristaGrafo
\* ------------------------------------------------------------------------
CapacidadMaxima == 10
NormalizacionDistancia == 50

\* weights are stored as numerators over Den
Den == NormalizacionDistancia * Max(CapacidadMaxima, 1)

NodoGrafo(id_nodo, x, y) == [id |-> id_nodo, x |-> x, y |-> y, activo |-> TRUE]

\* Faulty variant of AristaGrafo: a new edge already counts one vehicle
AristaGrafoCargada(nodo_origen, nodo_destino, peso, bidireccional) ==
    [origen |-> nodo_origen,
     destino |-> nodo_destino,
     peso_base |-> peso,
     peso_actual |-> peso,
     bidireccional |-> bidireccional,
     bloqueada |-> FALSE,
     carga_trafico |-> 1,
     capacidad_maxima |-> CapacidadMaxima]

\* AristaGrafo.__init__ (peso is a numerator over Den)
AristaGrafo(nodo_origen, nodo_destino, peso, bidireccional) ==
    [origen |-> nodo_origen,
     destino |-> nodo_destino,
     peso_base |-> peso,
     peso_actual |-> peso,
     bidireccional |-> bidireccional,
     bloqueada |-> FALSE,
     carga_trafico |-> 0,
     capacidad_maxima |-> CapacidadMaxima]

Abs(n) == IF n < 0 THEN 0 - n ELSE n

\* math.sqrt(dx*dx + dy*dy) on the whole-number distances the model's
\* coordinates produce
Hipotenusa(dx, dy) ==
    CHOOSE r \in 0..(Abs(dx) + Abs(dy)) : r * r = dx * dx + dy * dy

\* obtener_distancia_euclidiana
obtener_distancia_euclidiana(a) ==
    Hipotenusa(a.destino.x - a.origen.x, a.destino.y - a.origen.y)

\* Faulty variant of PesoDinamico: the "1 +" of the formula is lost
PesoDinamicoSinBase(a) ==
    (a.peso_base * (2 * a.carga_trafico)) \div Max(a.capacidad_maxima, 1)

\* peso_base * (1 + (carga_trafico / max(capacidad_maxima, 1)) * 2)
PesoDinamico(a) ==
    (a.peso_base * (Max(a.capacidad_maxima, 1) + 2 * a.carga_trafico))
        \div Max(a.capacidad_maxima, 1)

\* calcular_peso_dinamico: a blocked edge returns inf and keeps peso_actual
calcular_peso_dinamico(a) ==
    IF a.bloqueada THEN a ELSE [a EXCEPT !.peso_actual = PesoDinamico(a)]

agregar_vehiculo(a) ==
    calcular_peso_dinamico([a EXCEPT !.carga_trafico = @ + 1])

\* Faulty variant of remover_vehiculo: the load is not given back
RemoverVehiculoSinDescontar(a) == a

remover_vehiculo(a) ==
    IF a.carga_trafico > 0
    THEN calcular_peso_dinamico([a EXCEPT !.carga_trafico = @ - 1])
    ELSE a

\* ------------------------------------------------------------------------
\* State
\* ------------------------------------------------------------------------
VARIABLES
    grafo,    \* GrafoTrafico: nodos, lista_adyacencia, contador_nodos, aristas_totales
    aristas,  \* the AristaGrafo objects ever created, by object id
    gestor,   \* GestorVehiculos: vehiculos, contador_vehiculos, the two lists, estadisticas
    vehs,     \* the registered Vehiculo objects, by vehicle id
    motor,    \* MotorSimulacion: tiempo_simulacion, pausado, tiempo_ultimo_vehiculo, ...
    excepcion \* the exception that left the last operation, "" when it returned

vars == <<grafo, aristas, gestor, vehs, motor, excepcion>>

\* ------------------------------------------------------------------------
\* GrafoTrafico (g is the graph object, ar the edge heap)
\* ------------------------------------------------------------------------
GrafoTrafico == [nodos |-> HT_nueva,
                 lista_adyacencia |-> HT_nueva,
                 contador_nodos |-> 0,
                 aristas_totales |-> 0]

\* agregar_nodo: the counter gives a fresh key, so both insertar calls append
agregar_nodo(g, x, y) ==
    LET n == g.contador_nodos + 1
    IN [g EXCEPT !.contador_nodos = n,
                 !.nodos = HT_insertar(g.nodos, n, NodoGrafo(n, x, y)).t,
                 !.lista_adyacencia = HT_insertar(g.lista_adyacencia, n, LE_nueva).t]

\* obtener_aristas_nodo: the ids of the edge objects in id_nodo's list
obtener_aristas_nodo(g, id_nodo) ==
    IF HT_tiene(g.lista_adyacencia, id_nodo)
    THEN LE_obtener_lista(HT_valor(g.lista_adyacencia, id_nodo))
    ELSE << >>

RECURSIVE ConcatenarAristas(_, _, _)
ConcatenarAristas(g, claves, i) ==
    IF i > Len(claves) THEN << >>
    ELSE obtener_aristas_nodo(g, claves[i]) \o ConcatenarAristas(g, claves, i + 1)

\* obtener_todas_aristas: the lists of the nodes in key enumeration order
obtener_todas_aristas(g) == ConcatenarAristas(g, HT_obtener_claves(g.nodos), 1)

obtener_nodos_lista(g) == HT_obtener_valores(g.nodos)

\* the weight agregar_arista gives the new records (a numerator over Den):
\* peso == 1 is taken for "no weight given" and replaced by distance / 50
PesoArista(nodo_origen, nodo_destino, peso) ==
    IF peso = 1
    THEN Hipotenusa(nodo_destino.x - nodo_origen.x, nodo_destino.y - nodo_origen.y)
             * Max(CapacidadMaxima, 1)
    ELSE peso * Den

\* agregar_arista, both endpoints present: [g, ar]
agregar_arista(g, ar, id_origen, id_destino, peso, bidireccional) ==
    LET nodo_origen == HT_valor(g.nodos, id_origen)
        nodo_destino == HT_valor(g.nodos, id_destino)
        w == PesoArista(nodo_origen, nodo_destino, peso)
        e1 == Len(ar) + 1
        ar1 == Append(ar, AristaGrafo(nodo_origen, nodo_destino, w, bidireccional))
        la1 == HT_mutar(g.lista_adyacencia, id_origen,
                        LE_agregar(HT_valor(g.lista_adyacencia, id_origen), e1))
        e2 == e1 + 1
        ar2 == Append(ar1, AristaGrafo(nodo_destino, nodo_origen, w, TRUE))
        la2 == HT_mutar(la1, id_destino, LE_agregar(HT_valor(la1, id_destino), e2))
    IN [g |-> [g EXCEPT !.lista_adyacencia = IF bidireccional THEN la2 ELSE la1,
                        !.aristas_totales = @ + 1],
        ar |-> IF bidireccional THEN ar2 ELSE ar1]

RECURSIVE FiltrarSeq(_, _, _)
\* the elements of a list that are in the set conservar, in order
FiltrarSeq(l, conservar, i) ==
    IF i > Len(l) THEN << >>
    ELSE (IF l[i] \in conservar THEN <<l[i]>> ELSE << >>)
             \o FiltrarSeq(l, conservar, i + 1)

\* Faulty variant of eliminar_aristas_hacia_nodo: no edge is unlinked
EliminarAristasSinPodar(g, ar, id_origen, id_destino) == g

\* _eliminar_aristas_hacia_nodo: every edge of id_origen's list whose
\* destination is id_destino is unlinked from the list
eliminar_aristas_hacia_nodo(g, ar, id_origen, id_destino) ==
    IF HT_tiene(g.lista_adyacencia, id_origen)
    THEN LET lista == HT_valor(g.lista_adyacencia, id_origen)
             quedan == {lista[k] : k \in {j \in 1..Len(lista) :
                                            ar[lista[j]].destino.id # id_destino}}
         IN [g EXCEPT !.lista_adyacencia =
                 HT_mutar(@, id_origen, FiltrarSeq(lista, quedan, 1))]
    ELSE g

RECURSIVE EliminarHaciaNodo(_, _, _, _, _)
\* eliminar_nodo's loop over the keys read before the loop starts
EliminarHaciaNodo(g, ar, claves, i, id_nodo) ==
    IF i > Len(claves) THEN g
    ELSE EliminarHaciaNodo(
             IF claves[i] # id_nodo
             THEN eliminar_aristas_hacia_nodo(g, ar, claves[i], id_nodo)
             ELSE g,
             ar, claves, i + 1, id_nodo)

\* Faulty variant of eliminar_nodo: the node and its list are dropped, the
\* edges into it stay in the other lists
EliminarNodoSinPodar(g, ar, id_nodo) ==
    [g EXCEPT !.nodos = HT_eliminar(@, id_nodo),
              !.lista_adyacencia = HT_eliminar(@, id_nodo)]

\* eliminar_nodo on a node of the graph (it returns False, changing nothing,
\* when nodos.contiene(id_nodo) is false)
eliminar_nodo(g, ar, id_nodo) ==
    LET g1 == EliminarHaciaNodo(g, ar, HT_obtener_claves(g.nodos), 1, id_nodo)
    IN [g1 EXCEPT !.nodos = HT_eliminar(@, id_nodo),
                  !.lista_adyacencia = HT_eliminar(@, id_nodo)]

\* Faulty variant of llamar_agregar_arista: a call with a missing endpoint
\* still counts an edge
LlamarAgregarContando(g, ar, id_origen, id_destino, peso, bidireccional) ==
    IF ~HT_tiene(g.nodos, id_origen) \/ ~HT_tiene(g.nodos, id_destino)
    THEN [ok |-> FALSE, g |-> [g EXCEPT !.aristas_totales = @ + 1], ar |-> ar]
    ELSE [ok |-> TRUE,
          g |-> agregar_arista(g, ar, id_origen, id_destino, peso, bidireccional).g,
          ar |-> agregar_arista(g, ar, id_origen, id_destino, peso, bidireccional).ar]

\* agregar_arista as called: [ok, g, ar]; False, and nothing changed, when an
\* endpoint is not a node
llamar_agregar_arista(g, ar, id_origen, id_destino, peso, bidireccional) ==
    IF ~HT_tiene(g.nodos, id_origen) \/ ~HT_tiene(g.nodos, id_destino)
    THEN [ok |-> FALSE, g |-> g, ar |-> ar]
    ELSE [ok |-> TRUE,
          g |-> agregar_arista(g, ar, id_origen, id_destino, peso, bidireccional).g,
          ar |-> agregar_arista(g, ar, id_origen, id_destino, peso, bidireccional).ar]

\* eliminar_nodo as called: [ok, g]; False, and nothing changed, when id_nodo
\* is not a node
llamar_eliminar_nodo(g, ar, id_nodo) ==
    IF ~HT_contiene(g.nodos, id_nodo)
    THEN [ok |-> FALSE, g |-> g]
    ELSE [ok |-> TRUE, g |-> eliminar_nodo(g, ar, id_nodo)]

RECURSIVE ProblemasDe(_, _, _, _)
\* validar_integridad's loop: one problem per edge endpoint that is not a key
\* of nodos, in the order they are appended
ProblemasDe(g, ar, lista, i) ==
    IF i > Len(lista) THEN << >>
    ELSE (IF ~HT_contiene(g.nodos, ar[lista[i]].origen.id)
          THEN << [extremo |-> "origen", id |-> ar[lista[i]].origen.id] >> ELSE << >>)
         \o (IF ~HT_contiene(g.nodos, ar[lista[i]].destino.id)
             THEN << [extremo |-> "destino", id |-> ar[lista[i]].destino.id] >> ELSE << >>)
         \o ProblemasDe(g, ar, lista, i + 1)

\* validar_integridad: the list of problems; it assigns nothing
validar_integridad(g, ar) == ProblemasDe(g, ar, obtener_todas_aristas(g), 1)

RECURSIVE VecinosSinFiltro(_, _, _)
\* Faulty variant of Vecinos: blocked edges are listed too
VecinosSinFiltro(ar, lista, i) ==
    IF i > Len(lista) THEN << >>
    ELSE LET a == ar[lista[i]]
         IN (IF a.destino.activo
             THEN << <<a.destino, a.peso_actual>> >> ELSE << >>)
                \o VecinosSinFiltro(ar, lista, i + 1)

RECURSIVE Vecinos(_, _, _)
Vecinos(ar, lista, i) ==
    IF i > Len(lista) THEN << >>
    ELSE LET a == ar[lista[i]]
         IN (IF ~a.bloqueada /\ a.destino.activo
             THEN << <<a.destino, a.peso_actual>> >> ELSE << >>)
                \o Vecinos(ar, lista, i + 1)

\* obtener_vecinos: (destination node, peso_actual) of the live edges
obtener_vecinos(g, ar, id_nodo) ==
    IF HT_tiene(g.lista_adyacencia, id_nodo)
    THEN Vecinos(ar, LE_obtener_lista(HT_valor(g.lista_adyacencia, id_nodo)), 1)
    ELSE << >>

RECURSIVE PrimeraArista(_, _, _, _)
\* the first edge of a list whose destination is id_destino, 0 when none
PrimeraArista(ar, lista, i, id_destino) ==
    IF i > Len(lista) THEN 0
    ELSE IF ar[lista[i]].destino.id = id_destino THEN lista[i]
    ELSE PrimeraArista(ar, lista, i + 1, id_destino)

\* Faulty variant of bloquear_arista: the first edge of the opposite
\* direction is blocked as well
BloquearAmbosSentidos(g, ar, id_origen, id_destino) ==
    LET e == PrimeraArista(ar, obtener_aristas_nodo(g, id_origen), 1, id_destino)
        i == PrimeraArista(ar, obtener_aristas_nodo(g, id_destino), 1, id_origen)
    IN IF e = 0 THEN [ok |-> FALSE, ar |-> ar]
       ELSE [ok |-> TRUE,
             ar |-> [x \in 1..Len(ar) |->
                        IF x = e \/ x = i THEN [ar[x] EXCEPT !.bloqueada = TRUE]
                        ELSE ar[x]]]

\* bloquear_arista: [ok, ar]
bloquear_arista(g, ar, id_origen, id_destino) ==
    LET e == PrimeraArista(ar, obtener_aristas_nodo(g, id_origen), 1, id_destino)
    IN IF e = 0 THEN [ok |-> FALSE, ar |-> ar]
       ELSE [ok |-> TRUE, ar |-> [ar EXCEPT ![e].bloqueada = TRUE]]

\* desbloquear_arista: [ok, ar]
desbloquear_arista(g, ar, id_origen, id_destino) ==
    LET e == PrimeraArista(ar, obtener_aristas_nodo(g, id_origen), 1, id_destino)
    IN IF e = 0 THEN [ok |-> FALSE, ar |-> ar]
       ELSE [ok |-> TRUE, ar |-> [ar EXCEPT ![e].bloqueada = FALSE]]

\* ------------------------------------------------------------------------
\* AlgoritmoDijkstra. The working state of a run is
\*   [distancias, predecesores, visitados, cola, error]
\* where error is set as soon as one HashTable.insertar raises, and the run
\* stops there. A predecessor is stored as None or Some(id).
\* ------------------------------------------------------------------------
NoRuta == [estado |-> "ok", distancia |-> None, ruta_nodos |-> << >>, ruta_aristas |-> << >>]
Lanzada == [estado |-> "TypeError", distancia |-> None, ruta_nodos |-> << >>, ruta_aristas |-> << >>]

D_nuevo == [distancias |-> HT_nueva, predecesores |-> HT_nueva,
            visitados |-> HT_nueva, cola |-> CP_nueva, error |-> FALSE]

RECURSIVE D_inicializar(_, _, _)
\* for id_nodo in obtener_claves(): inf, None, False
D_inicializar(st, claves, i) ==
    IF i > Len(claves) \/ st.error THEN st
    ELSE LET d == HT_insertar(st.distancias, claves[i], Infinito)
             p == HT_insertar(st.predecesores, claves[i], None)
             v == HT_insertar(st.visitados, claves[i], FALSE)
         IN D_inicializar([st EXCEPT !.distancias = d.t,
                                     !.predecesores = p.t,
                                     !.visitados = v.t,
                                     !.error = d.error \/ p.error \/ v.error],
                          claves, i + 1)

\* distancias.insertar(id_origen, 0); cola_prioridad.insertar(0, id_origen)
D_sembrar(st, id_origen) ==
    IF st.error THEN st
    ELSE LET d == HT_insertar(st.distancias, id_origen, 0)
         IN IF d.error THEN [st EXCEPT !.error = TRUE]
            ELSE [st EXCEPT !.distancias = d.t,
                            !.cola = CP_insertar(st.cola, 0, id_origen)]

\* visitados.obtener(id) taken as a condition: None and False are both false
D_visitado(st, id) == HT_tiene(st.visitados, id) /\ HT_valor(st.visitados, id)

RECURSIVE D_relajar(_, _, _, _, _)
\* the loop over the neighbours of nodo_actual
D_relajar(st, vecinos, i, distancia_actual, nodo_actual) ==
    IF i > Len(vecinos) \/ st.error THEN st
    ELSE LET id_vecino == vecinos[i][1].id
             nueva_distancia == distancia_actual + vecinos[i][2]
         IN IF D_visitado(st, id_vecino)
            THEN D_relajar(st, vecinos, i + 1, distancia_actual, nodo_actual)
            ELSE IF nueva_distancia < HT_valor(st.distancias, id_vecino)
            THEN LET d == HT_insertar(st.distancias, id_vecino, nueva_distancia)
                     p == IF d.error THEN [error |-> TRUE, t |-> st.predecesores]
                          ELSE HT_insertar(st.predecesores, id_vecino, Some(nodo_actual))
                 IN IF d.error \/ p.error
                    THEN [st EXCEPT !.error = TRUE]
                    ELSE D_relajar([st EXCEPT
                                      !.distancias = d.t,
                                      !.predecesores = p.t,
                                      !.cola = CP_insertar(st.cola, nueva_distancia, id_vecino)],
                                   vecinos, i + 1, distancia_actual, nodo_actual)
            ELSE D_relajar(st, vecinos, i + 1, distancia_actual, nodo_actual)

RECURSIVE D_bucle(_, _, _, _)
\* while not cola_prioridad.es_vacia(): ...   parar is Some(id_destino) for
\* encontrar_ruta_mas_corta (break at the destination) and None for
\* encontrar_rutas_multiples
D_bucle(st, g, ar, parar) ==
    IF st.error \/ CP_es_vacia(st.cola) THEN st
    ELSE LET x == CP_extraer_min(st.cola)
             distancia_actual == x.min[1]
             nodo_actual == x.min[2]
             st1 == [st EXCEPT !.cola = x.heap]
         IN IF D_visitado(st1, nodo_actual)
            THEN D_bucle(st1, g, ar, parar)
            ELSE LET v == HT_insertar(st1.visitados, nodo_actual, TRUE)
                 IN IF v.error THEN [st1 EXCEPT !.error = TRUE]
                    ELSE LET st2 == [st1 EXCEPT !.visitados = v.t]
                         IN IF parar = Some(nodo_actual) THEN st2
                            ELSE D_bucle(D_relajar(st2, obtener_vecinos(g, ar, nodo_actual),
                                                   1, distancia_actual, nodo_actual),
                                         g, ar, parar)

\* _encontrar_arista: the first edge of id_origen's list that ends in
\* id_destino (an object id), 0 for None
encontrar_arista(g, ar, id_origen, id_destino) ==
    PrimeraArista(ar, obtener_aristas_nodo(g, id_origen), 1, id_destino)

\* predecesores.obtener(nodo): None when the key is absent or holds None
D_predecesor(predecesores, nodo) ==
    IF HT_tiene(predecesores, nodo) THEN HT_valor(predecesores, nodo) ELSE None

RECURSIVE ReconstruirHaciaAtras(_, _, _, _)
\* the while loop of _reconstruir_ruta, from the destination backwards:
\* [nodos, aristas] in the order they are appended
ReconstruirHaciaAtras(g, ar, predecesores, nodo_actual) ==
    LET predecesor == D_predecesor(predecesores, nodo_actual)
    IN IF predecesor = None
       THEN [nodos |-> <<nodo_actual>>, aristas |-> << >>]
       ELSE LET arista == encontrar_arista(g, ar, predecesor.val, nodo_actual)
                resto == ReconstruirHaciaAtras(g, ar, predecesores, predecesor.val)
            IN [nodos |-> <<nodo_actual>> \o resto.nodos,
                aristas |-> (IF arista # 0 THEN <<arista>> ELSE << >>) \o resto.aristas]

Invertir(l) == [i \in 1..Len(l) |-> l[Len(l) + 1 - i]]

\* Faulty variant of reconstruir_ruta: ruta_aristas.reverse() is lost
ReconstruirSinInvertirAristas(g, ar, predecesores, id_origen, id_destino) ==
    LET r == ReconstruirHaciaAtras(g, ar, predecesores, id_destino)
    IN [ruta_nodos |-> Invertir(r.nodos), ruta_aristas |-> r.aristas]

\* _reconstruir_ruta: [ruta_nodos, ruta_aristas]
reconstruir_ruta(g, ar, predecesores, id_origen, id_destino) ==
    LET r == ReconstruirHaciaAtras(g, ar, predecesores, id_destino)
    IN [ruta_nodos |-> Invertir(r.nodos), ruta_aristas |-> Invertir(r.aristas)]

\* encontrar_ruta_mas_corta: [estado, distancia, ruta_nodos, ruta_aristas];
\* estado is "TypeError" when the call is left by the exception of insertar
encontrar_ruta_mas_corta(g, ar, id_origen, id_destino) ==
    IF ~HT_contiene(g.nodos, id_origen) \/ ~HT_contiene(g.nodos, id_destino)
    THEN NoRuta
    ELSE LET st0 == D_inicializar(D_nuevo, HT_obtener_claves(g.nodos), 1)
             st == D_bucle(D_sembrar(st0, id_origen), g, ar, Some(id_destino))
         IN IF st.error THEN Lanzada
            ELSE LET r == reconstruir_ruta(g, ar, st.predecesores, id_origen, id_destino)
                     distancia_total == HT_valor(st.distancias, id_destino)
                 IN IF distancia_total = Infinito THEN NoRuta
                    ELSE [estado |-> "ok",
                          distancia |-> Some(distancia_total),
                          ruta_nodos |-> r.ruta_nodos,
                          ruta_aristas |-> r.ruta_aristas]

RECURSIVE RutasPorDestino(_, _, _, _, _, _)
\* the loop over destinos: the entries added to rutas, as a sequence of
\* [destino, distancia, ruta_nodos, ruta_aristas] (a destination listed
\* twice overwrites its own entry with the same value)
RutasPorDestino(g, ar, st, id_origen, destinos, i) ==
    IF i > Len(destinos) THEN << >>
    ELSE LET id_destino == destinos[i]
             distancia == HT_obtener(st.distancias, id_destino)
             resto == RutasPorDestino(g, ar, st, id_origen, destinos, i + 1)
         IN IF distancia # Some(Infinito)
            THEN LET r == reconstruir_ruta(g, ar, st.predecesores, id_origen, id_destino)
                 IN << [destino |-> id_destino,
                        distancia |-> distancia,
                        ruta_nodos |-> r.ruta_nodos,
                        ruta_aristas |-> r.ruta_aristas] >> \o resto
            ELSE resto

\* encontrar_rutas_multiples: [estado, rutas]
encontrar_rutas_multiples(g, ar, id_origen, destinos) ==
    LET st0 == D_inicializar(D_nuevo, HT_obtener_claves(g.nodos), 1)
        st == D_bucle(D_sembrar(st0, id_origen), g, ar, None)
    IN IF st.error THEN [estado |-> "TypeError", rutas |-> << >>]
       ELSE [estado |-> "ok",
             rutas |-> RutasPorDestino(g, ar, st, id_origen, destinos, 1)]

\* ------------------------------------------------------------------------
\* Exact rationals <<numerator, denominator>> in lowest terms, for progress
\* fractions, interpolated positions and the average travel time
\* ------------------------------------------------------------------------
RECURSIVE MCD(_, _)
MCD(a, b) == IF b = 0 THEN a ELSE MCD(b, a % b)

Rac(n, d) == LET m == MCD(Abs(n), d) IN <<n \div m, d \div m>>
RSuma(p, q) == Rac(p[1] * q[2] + q[1] * p[2], p[2] * q[2])
REntero(n) == <<n, 1>>

\* ------------------------------------------------------------------------
\* GrafoTrafico.obtener_estadisticas and AnalizadorTrafico
\* ------------------------------------------------------------------------
\* obtener_estadisticas; carga_trafico > capacidad_maxima * 0.8 in tenths
obtener_estadisticas(g, ar) ==
    [total_nodos |-> Len(HT_obtener_claves(g.nodos)),
     nodos_activos |->
         Cardinality({i \in 1..Len(HT_obtener_valores(g.nodos)) :
                         HT_obtener_valores(g.nodos)[i].activo}),
     total_aristas |-> Len(obtener_todas_aristas(g)),
     aristas_activas |->
         Cardinality({i \in 1..Len(obtener_todas_aristas(g)) :
                         ~ar[obtener_todas_aristas(g)[i]].bloqueada}),
     aristas_congestionadas |->
         Cardinality({i \in 1..Len(obtener_todas_aristas(g)) :
                         10 * ar[obtener_todas_aristas(g)[i]].carga_trafico
                             > 8 * ar[obtener_todas_aristas(g)[i]].capacidad_maxima})]

\* p < q on rationals with positive denominators
RMenor(p, q) == p[1] * q[2] < q[1] * p[2]

\* lista[:5]
PrimerosCinco(lista) == SubSeq(lista, 1, Min(Len(lista), 5))

Intercambiar(lista, j) == [lista EXCEPT ![j] = lista[j + 1], ![j + 1] = lista[j]]

RECURSIVE Pasada(_, _, _, _)
\* the inner loop of _ordenar_por_valor: positions j .. fin
Pasada(lista, j, fin, reverso) ==
    IF j > fin THEN lista
    ELSE Pasada(IF (reverso /\ RMenor(lista[j].valor, lista[j + 1].valor))
                   \/ (~reverso /\ RMenor(lista[j + 1].valor, lista[j].valor))
                THEN Intercambiar(lista, j)
                ELSE lista,
                j + 1, fin, reverso)

RECURSIVE Burbuja(_, _, _)
\* the outer loop of _ordenar_por_valor, i = 0 .. n - 1
Burbuja(lista, i, reverso) ==
    IF i >= Len(lista) THEN lista
    ELSE Burbuja(Pasada(lista, 1, Len(lista) - i - 1, reverso), i + 1, reverso)

\* _ordenar_por_valor on a list of [elemento, valor]
ordenar_por_valor(lista, reverso) == Burbuja(lista, 0, reverso)

RECURSIVE CentralidadInicial(_, _, _)
\* centralidad.insertar(nodo.id, 0) for every node: the ids are distinct
CentralidadInicial(centralidad, nodos, i) ==
    IF i > Len(nodos) THEN centralidad
    ELSE CentralidadInicial(HT_insertar(centralidad, nodos[i].id, 0).t, nodos, i + 1)

RECURSIVE IncrementarIntermedios(_, _, _)
RECURSIVE TrasIncrementar(_, _, _, _)
\* for k in range(1, len(ruta_nodos) - 1): insertar(id, obtener(id) + 1);
\* [error, t]
IncrementarIntermedios(centralidad, ruta_nodos, k) ==
    IF k > Len(ruta_nodos) - 1 THEN [error |-> FALSE, t |-> centralidad]
    ELSE TrasIncrementar(centralidad, ruta_nodos, k,
                         HT_insertar(centralidad, ruta_nodos[k],
                                     HT_valor(centralidad, ruta_nodos[k]) + 1))

\* the loop after its call of insertar, whose return is ins
TrasIncrementar(centralidad, ruta_nodos, k, ins) ==
    IF ins.error THEN [error |-> TRUE, t |-> centralidad]
    ELSE IncrementarIntermedios(ins.t, ruta_nodos, k + 1)

\* the pairs (i, j), i # j, in the order of the two nested loops
ParesDeNodos(n) ==
    LET todos == [p \in 1..(n * n) |-> <<((p - 1) \div n) + 1, ((p - 1) % n) + 1>>]
    IN FiltrarSeq(todos, {q \in (1..n) \X (1..n) : q[1] # q[2]}, 1)

RECURSIVE CentralidadPorPares(_, _, _, _, _, _)
RECURSIVE TrasRutaDelPar(_, _, _, _, _, _, _)
RECURSIVE TrasIntermedios(_, _, _, _, _, _)
\* the nested loops of _calcular_centralidad_intermediacion: [error, t]
CentralidadPorPares(g, ar, centralidad, nodos, pares, p) ==
    IF p > Len(pares) THEN [error |-> FALSE, t |-> centralidad]
    ELSE TrasRutaDelPar(g, ar, centralidad, nodos, pares, p,
                        encontrar_ruta_mas_corta(g, ar, nodos[pares[p][1]].id,
                                                 nodos[pares[p][2]].id))

\* the body of the loops after the path engine's call, whose return is r
TrasRutaDelPar(g, ar, centralidad, nodos, pares, p, r) ==
    IF r.estado = "TypeError" THEN [error |-> TRUE, t |-> centralidad]
    ELSE TrasIntermedios(g, ar, nodos, pares, p,
                         IncrementarIntermedios(centralidad, r.ruta_nodos, 2))

\* the body of the loops after the intermediate nodes were counted into c
TrasIntermedios(g, ar, nodos, pares, p, c) ==
    IF c.error THEN c
    ELSE CentralidadPorPares(g, ar, c.t, nodos, pares, p + 1)

\* the ranking at the end of _calcular_centralidad_intermediacion; c is the
\* return of the loops
ListaDeCentralidad(nodos, c) ==
    IF c.error THEN [estado |-> "TypeError", lista |-> << >>]
    ELSE [estado |-> "ok",
          lista |-> PrimerosCinco(ordenar_por_valor(
                        [i \in 1..Len(nodos) |->
                            [elemento |-> nodos[i].id,
                             valor |-> REntero(HT_valor(c.t, nodos[i].id))]],
                        TRUE))]

\* the loops over the node list nodos
CentralidadDe(g, ar, nodos) ==
    ListaDeCentralidad(nodos,
                       CentralidadPorPares(g, ar,
                                           CentralidadInicial(HT_nueva, nodos, 1),
                                           nodos, ParesDeNodos(Len(nodos)), 1))

\* _calcular_centralidad_intermediacion: [estado, lista]
calcular_centralidad_intermediacion(g, ar) ==
    CentralidadDe(g, ar, obtener_nodos_lista(g))

\* the ranking of the loaded edges by their percentage of congestion
CongestionDe(ar, cargadas) ==
    PrimerosCinco(ordenar_por_valor(
        [i \in 1..Len(cargadas) |->
            [elemento |-> cargadas[i],
             valor |-> Rac(ar[cargadas[i]].carga_trafico * 100,
                           Max(ar[cargadas[i]].capacidad_maxima, 1))]],
        TRUE))

\* _identificar_aristas_congestionadas
identificar_aristas_congestionadas(g, ar) ==
    CongestionDe(ar, FiltrarSeq(obtener_todas_aristas(g),
                                {e \in 1..Len(ar) : ar[e].carga_trafico > 0}, 1))

\* the ranking of the nodes by the length of their edge lists
ConexionesDe(g, nodos) ==
    PrimerosCinco(ordenar_por_valor(
        [i \in 1..Len(nodos) |->
            [elemento |-> nodos[i].id,
             valor |-> REntero(Len(obtener_aristas_nodo(g, nodos[i].id)))]],
        TRUE))

\* _identificar_nodos_muy_conectados
identificar_nodos_muy_conectados(g) == ConexionesDe(g, obtener_nodos_lista(g))

\* distancia_sin_arista is None or > distancia_con_arista * 2
EsCuelloDeBotella(a, r) ==
    r.distancia = None \/ r.distancia.val > a.peso_actual * 2

RECURSIVE CuellosDesde(_, _, _, _, _)
RECURSIVE TrasRutaAlternativa(_, _, _, _, _, _)
\* the loop of _identificar_cuellos_botella: [estado, ar, cuellos]
CuellosDesde(g, ar, lista, i, cuellos) ==
    IF i > Len(lista) THEN [estado |-> "ok", ar |-> ar, cuellos |-> cuellos]
    ELSE TrasRutaAlternativa(
             g, ar, lista, i, cuellos,
             encontrar_ruta_mas_corta(g, [ar EXCEPT ![lista[i]].bloqueada = TRUE],
                                      ar[lista[i]].origen.id, ar[lista[i]].destino.id))

\* the body of the loop after the path engine's call, whose return is r.
\* The edge is restored by a plain statement after that call, so an
\* exception of the call leaves the edge with bloqueada = True.
TrasRutaAlternativa(g, ar, lista, i, cuellos, r) ==
    IF r.estado = "TypeError"
    THEN [estado |-> "TypeError",
          ar |-> [ar EXCEPT ![lista[i]].bloqueada = TRUE],
          cuellos |-> cuellos]
    ELSE CuellosDesde(g, ar, lista, i + 1,
                      IF EsCuelloDeBotella(ar[lista[i]], r)
                      THEN Append(cuellos, lista[i]) ELSE cuellos)

\* return cuellos_botella[:5]; r is the return of the loop
CortarCuellos(r) ==
    [estado |-> r.estado, ar |-> r.ar, cuellos |-> PrimerosCinco(r.cuellos)]

\* _identificar_cuellos_botella: [estado, ar, cuellos]
identificar_cuellos_botella(g, ar) ==
    CortarCuellos(CuellosDesde(g, ar, obtener_todas_aristas(g), 1, << >>))

\* identificar_puntos_criticos after the centrality, whose return is c, and
\* the bottlenecks, whose return is b
PuntosCriticos(g, ar, c, b) ==
    IF b.estado = "TypeError"
    THEN [estado |-> "TypeError", ar |-> b.ar, puntos |-> None]
    ELSE [estado |-> "ok", ar |-> b.ar,
          puntos |-> Some([nodos_centrales |-> c.lista,
                           aristas_congestionadas |->
                               identificar_aristas_congestionadas(g, ar),
                           nodos_conectados |-> identificar_nodos_muy_conectados(g),
                           cuellos_botella |-> b.cuellos])]

\* identificar_puntos_criticos after the centrality, whose return is c: an
\* exception there leaves the call before the other analyses start
TrasCentralidad(g, ar, c) ==
    IF c.estado = "TypeError"
    THEN [estado |-> "TypeError", ar |-> ar, puntos |-> None]
    ELSE PuntosCriticos(g, ar, c, identificar_cuellos_botella(g, ar))

\* identificar_puntos_criticos: [estado, ar, puntos]; the four analyses run
\* in the order of the dict literal
identificar_puntos_criticos(g, ar) ==
    TrasCentralidad(g, ar, calcular_centralidad_intermediacion(g, ar))

\* _generar_recomendaciones: one entry per message, with the ids it names
generar_recomendaciones(ar, puntos) ==
    (IF puntos.nodos_centrales # << >>
     THEN << [tipo |-> "nodo_central", id |-> puntos.nodos_centrales[1].elemento] >>
     ELSE << >>)
    \o (IF puntos.aristas_congestionadas # << >>
        THEN << [tipo |-> "arista_congestionada",
                 origen |-> ar[puntos.aristas_congestionadas[1].elemento].origen.id,
                 destino |-> ar[puntos.aristas_congestionadas[1].elemento].destino.id] >>
        ELSE << >>)
    \o (IF puntos.cuellos_botella # << >>
        THEN << [tipo |-> "cuellos_botella"] >>
        ELSE << >>)

\* generar_reporte_trafico from the return p of identificar_puntos_criticos
Reporte(g, ar, p) ==
    IF p.estado = "TypeError"
    THEN [estado |-> "TypeError", ar |-> p.ar, reporte |-> None]
    ELSE [estado |-> "ok", ar |-> p.ar,
          reporte |-> Some([estadisticas_generales |-> obtener_estadisticas(g, ar),
                            puntos_criticos |-> p.puntos.val,
                            recomendaciones |-> generar_recomendaciones(p.ar, p.puntos.val)])]

\* generar_reporte_trafico: [estado, ar, reporte]
generar_reporte_trafico(g, ar) == Reporte(g, ar, identificar_puntos_criticos(g, ar))

\* ------------------------------------------------------------------------
\* Vehiculo
\* ------------------------------------------------------------------------
Vehiculo(id_vehiculo, nodo_origen, nodo_destino, velocidad) ==
    [id |-> id_vehiculo,
     nodo_origen |-> nodo_origen,
     nodo_destino |-> nodo_destino,
     posicion_x |-> REntero(nodo_origen.x),
     posicion_y |-> REntero(nodo_origen.y),
     velocidad |-> velocidad,
     estado |-> "planificando",
     ruta_nodos |-> << >>,
     ruta_aristas |-> << >>,
     indice_ruta_actual |-> 0,
     progreso_arista |-> REntero(0),
     distancia_total |-> 0,
     tiempo_viaje |-> 0]

\* Faulty variant of establecer_ruta: the state is left as it was
EstablecerRutaSinEstado(v, ruta_nodos, ruta_aristas, distancia_total) ==
    [v EXCEPT !.ruta_nodos = ruta_nodos,
              !.ruta_aristas = ruta_aristas,
              !.distancia_total = distancia_total,
              !.indice_ruta_actual = 0,
              !.progreso_arista = REntero(0)]

establecer_ruta(v, ruta_nodos, ruta_aristas, distancia_total) ==
    [v EXCEPT !.ruta_nodos = ruta_nodos,
              !.ruta_aristas = ruta_aristas,
              !.distancia_total = distancia_total,
              !.indice_ruta_actual = 0,
              !.progreso_arista = REntero(0),
              !.estado = IF ruta_nodos # << >> THEN "viajando" ELSE "bloqueado"]

\* _interpolar_posicion: origen + (destino - origen) * progreso_arista
interpolar_posicion(v, a) ==
    LET pr == v.progreso_arista
    IN [v EXCEPT
          !.posicion_x = Rac(a.origen.x * pr[2] + (a.destino.x - a.origen.x) * pr[1], pr[2]),
          !.posicion_y = Rac(a.origen.y * pr[2] + (a.destino.y - a.origen.y) * pr[1], pr[2])]

\* the edge object the vehicle is on (ruta_aristas[indice_ruta_actual])
AristaEnCurso(v) == v.ruta_aristas[v.indice_ruta_actual + 1]

\* Faulty variant of actualizar_posicion: the progress beyond the end of the
\* edge is carried over to the next edge
AvanzarSinDescartar(v, ar, delta_tiempo) ==
    IF v.estado # "viajando" \/ v.ruta_aristas = << >>
    THEN [v |-> v, ar |-> ar]
    ELSE IF v.indice_ruta_actual >= Len(v.ruta_aristas)
    THEN [v |-> [v EXCEPT !.estado = "arribado",
                          !.posicion_x = REntero(v.nodo_destino.x),
                          !.posicion_y = REntero(v.nodo_destino.y)],
          ar |-> ar]
    ELSE LET e == AristaEnCurso(v)
             progreso == RSuma(v.progreso_arista,
                               Rac(v.velocidad * delta_tiempo,
                                   Max(obtener_distancia_euclidiana(ar[e]), 1)))
             completa == progreso[1] >= progreso[2]
             indice == IF completa THEN v.indice_ruta_actual + 1 ELSE v.indice_ruta_actual
             ar1 == IF completa THEN [ar EXCEPT ![e] = remover_vehiculo(@)] ELSE ar
             ar2 == IF completa /\ indice < Len(v.ruta_aristas)
                    THEN [ar1 EXCEPT ![v.ruta_aristas[indice + 1]] = agregar_vehiculo(@)]
                    ELSE ar1
             v1 == [v EXCEPT !.indice_ruta_actual = indice,
                             !.progreso_arista =
                                 IF completa THEN RSuma(progreso, REntero(-1))
                                 ELSE progreso]
             v2 == IF indice < Len(v.ruta_aristas)
                   THEN interpolar_posicion(v1, ar2[v.ruta_aristas[indice + 1]])
                   ELSE v1
         IN [v |-> [v2 EXCEPT !.tiempo_viaje = @ + delta_tiempo], ar |-> ar2]

\* actualizar_posicion: [v, ar]
actualizar_posicion(v, ar, delta_tiempo) ==
    IF v.estado # "viajando" \/ v.ruta_aristas = << >>
    THEN [v |-> v, ar |-> ar]
    ELSE IF v.indice_ruta_actual >= Len(v.ruta_aristas)
    THEN [v |-> [v EXCEPT !.estado = "arribado",
                          !.posicion_x = REntero(v.nodo_destino.x),
                          !.posicion_y = REntero(v.nodo_destino.y)],
          ar |-> ar]
    ELSE LET e == AristaEnCurso(v)
             distancia_movimiento == v.velocidad * delta_tiempo
             distancia_arista == obtener_distancia_euclidiana(ar[e])
             progreso == RSuma(v.progreso_arista,
                               Rac(distancia_movimiento, Max(distancia_arista, 1)))
             completa == progreso[1] >= progreso[2]
             indice == IF completa THEN v.indice_ruta_actual + 1 ELSE v.indice_ruta_actual
             ar1 == IF completa THEN [ar EXCEPT ![e] = remover_vehiculo(@)] ELSE ar
             ar2 == IF completa /\ indice < Len(v.ruta_aristas)
                    THEN [ar1 EXCEPT ![v.ruta_aristas[indice + 1]] = agregar_vehiculo(@)]
                    ELSE ar1
             v1 == [v EXCEPT !.indice_ruta_actual = indice,
                             !.progreso_arista = IF completa THEN REntero(0) ELSE progreso]
             v2 == IF indice < Len(v.ruta_aristas)
                   THEN interpolar_posicion(v1, ar2[v.ruta_aristas[indice + 1]])
                   ELSE v1
         IN [v |-> [v2 EXCEPT !.tiempo_viaje = @ + delta_tiempo], ar |-> ar2]

\* ------------------------------------------------------------------------
\* GestorVehiculos (ge is the manager object, vs the vehicle heap)
\* ------------------------------------------------------------------------
EstadisticasIniciales == [total_creados |-> 0,
                          total_completados |-> 0,
                          tiempo_promedio_viaje |-> REntero(0),
                          vehiculos_bloqueados |-> 0]

GestorVehiculos == [vehiculos |-> HT_nueva,
                    contador_vehiculos |-> 0,
                    vehiculos_activos |-> LE_nueva,
                    vehiculos_completados |-> LE_nueva,
                    estadisticas |-> EstadisticasIniciales]

\* crear_vehiculo from the return of encontrar_ruta_mas_corta on: r is the
\* engine's answer, v0 the new Vehiculo and ge1 the manager with its counter
\* advanced
RegistrarVehiculo(ar, ge1, vs, v0, r) ==
    IF r.estado = "TypeError"
    THEN [estado |-> "TypeError", ar |-> ar, ge |-> ge1, vs |-> vs]
    ELSE LET hay_ruta == r.ruta_nodos # << >>
             v1 == IF hay_ruta
                   THEN establecer_ruta(v0, r.ruta_nodos, r.ruta_aristas, r.distancia.val)
                   ELSE [v0 EXCEPT !.estado = "bloqueado"]
             ar1 == IF hay_ruta /\ r.ruta_aristas # << >>
                    THEN [ar EXCEPT ![r.ruta_aristas[1]] = agregar_vehiculo(@)]
                    ELSE ar
             ge2 == [ge1 EXCEPT
                       !.estadisticas.vehiculos_bloqueados =
                           IF hay_ruta THEN @ ELSE @ + 1,
                       !.vehiculos = HT_insertar(@, v0.id, v0.id).t,
                       !.vehiculos_activos = LE_agregar(@, v0.id),
                       !.estadisticas.total_creados = @ + 1]
         IN [estado |-> "ok", ar |-> ar1, ge |-> ge2, vs |-> (v0.id :> v1) @@ vs]

\* crear_vehiculo: [estado, ar, ge, vs]; estado is "None" (an endpoint is
\* missing), "TypeError" (the path engine raised) or "ok"
crear_vehiculo(g, ar, ge, vs, id_origen, id_destino, velocidad) ==
    IF ~HT_tiene(g.nodos, id_origen) \/ ~HT_tiene(g.nodos, id_destino)
    THEN [estado |-> "None", ar |-> ar, ge |-> ge, vs |-> vs]
    ELSE RegistrarVehiculo(ar,
                           [ge EXCEPT !.contador_vehiculos = @ + 1],
                           vs,
                           Vehiculo(ge.contador_vehiculos + 1,
                                    HT_valor(g.nodos, id_origen),
                                    HT_valor(g.nodos, id_destino), velocidad),
                           encontrar_ruta_mas_corta(g, ar, id_origen, id_destino))

RECURSIVE SumaTiempos(_, _, _)
SumaTiempos(vs, lista, i) ==
    IF i > Len(lista) THEN 0
    ELSE vs[lista[i]].tiempo_viaje + SumaTiempos(vs, lista, i + 1)

\* _procesar_vehiculo_completado
procesar_vehiculo_completado(ge, vs, id) ==
    LET completados == LE_agregar(ge.vehiculos_completados, id)
    IN [ge EXCEPT !.vehiculos_activos = LE_eliminar(@, id),
                  !.vehiculos_completados = completados,
                  !.estadisticas.total_completados = @ + 1,
                  !.estadisticas.tiempo_promedio_viaje =
                      Rac(SumaTiempos(vs, completados, 1), Len(completados))]

RECURSIVE ActualizarVehiculos(_, _, _, _, _, _)
\* actualizar_simulacion's loop over the copy of the active list: [ar, ge, vs]
ActualizarVehiculos(ar, ge, vs, a_procesar, i, delta_tiempo) ==
    IF i > Len(a_procesar) THEN [ar |-> ar, ge |-> ge, vs |-> vs]
    ELSE LET id == a_procesar[i]
             estado_anterior == vs[id].estado
             r == actualizar_posicion(vs[id], ar, delta_tiempo)
             vs1 == [vs EXCEPT ![id] = r.v]
             ge1 == IF r.v.estado = "arribado" /\ estado_anterior # "arribado"
                    THEN procesar_vehiculo_completado(ge, vs1, id)
                    ELSE ge
         IN ActualizarVehiculos(r.ar, ge1, vs1, a_procesar, i + 1, delta_tiempo)

actualizar_simulacion(ar, ge, vs, delta_tiempo) ==
    ActualizarVehiculos(ar, ge, vs, LE_obtener_lista(ge.vehiculos_activos), 1, delta_tiempo)

\* eliminar_vehiculo: [ok, ar, ge]
eliminar_vehiculo(ar, ge, vs, id_vehiculo) ==
    IF HT_tiene(ge.vehiculos, id_vehiculo)
    THEN LET v == vs[HT_valor(ge.vehiculos, id_vehiculo)]
             ar1 == IF v.estado = "viajando" /\ v.indice_ruta_actual < Len(v.ruta_aristas)
                    THEN [ar EXCEPT ![AristaEnCurso(v)] = remover_vehiculo(@)]
                    ELSE ar
         IN [ok |-> TRUE,
             ar |-> ar1,
             ge |-> [ge EXCEPT !.vehiculos_activos = LE_eliminar(@, v.id),
                               !.vehiculos = HT_eliminar(@, id_vehiculo)]]
    ELSE [ok |-> FALSE, ar |-> ar, ge |-> ge]

RECURSIVE EliminarClaves(_, _, _)
EliminarClaves(t, lista, i) ==
    IF i > Len(lista) THEN t
    ELSE EliminarClaves(HT_eliminar(t, lista[i]), lista, i + 1)

\* limpiar_vehiculos_completados
limpiar_vehiculos_completados(ge) ==
    [ge EXCEPT !.vehiculos = EliminarClaves(@, LE_obtener_lista(ge.vehiculos_completados), 1),
               !.vehiculos_completados = LE_nueva]

\* ------------------------------------------------------------------------
\* MotorSimulacion (mo is the engine object)
\* ------------------------------------------------------------------------
TiempoEntreVehiculos == 12
MaxVehiculosSimultaneos == 50
VelocidadSimulacion == 1

MotorSimulacion == [tiempo_simulacion |-> 0,
                    velocidad_simulacion |-> VelocidadSimulacion,
                    pausado |-> FALSE,
                    tiempo_ultimo_vehiculo |-> 0]

\* the (origin, destination) pairs crear_vehiculo_aleatorio may draw; the
\* empty set when it returns None for want of two nodes
ParesAleatorios(g) ==
    LET ids == {HT_obtener_claves(g.nodos)[i] : i \in 1..Len(HT_obtener_claves(g.nodos))}
    IN IF Len(obtener_nodos_lista(g)) < 2 THEN {}
       ELSE {p \in ids \X ids : p[1] # p[2]}

\* _generar_vehiculos_automaticos with the draw (par, velocidad) of
\* crear_vehiculo_aleatorio: [estado, ar, ge, vs, mo]
\* if vehiculo: tiempo_ultimo_vehiculo = tiempo_simulacion   (r is the
\* return of crear_vehiculo)
AnotarGeneracion(mo, r) ==
    [estado |-> r.estado, ar |-> r.ar, ge |-> r.ge, vs |-> r.vs,
     mo |-> IF r.estado = "ok"
            THEN [mo EXCEPT !.tiempo_ultimo_vehiculo = mo.tiempo_simulacion]
            ELSE mo]

\* Faulty variant of generar_vehiculos_automaticos: the elapsed time is not
\* looked at
GenerarSinEsperar(g, ar, ge, vs, mo, par, velocidad) ==
    IF /\ Len(LE_obtener_lista(ge.vehiculos_activos)) < MaxVehiculosSimultaneos
       /\ ParesAleatorios(g) # {}
    THEN AnotarGeneracion(mo, crear_vehiculo(g, ar, ge, vs, par[1], par[2], velocidad))
    ELSE [estado |-> "no", ar |-> ar, ge |-> ge, vs |-> vs, mo |-> mo]

generar_vehiculos_automaticos(g, ar, ge, vs, mo, par, velocidad) ==
    IF /\ Len(LE_obtener_lista(ge.vehiculos_activos)) < MaxVehiculosSimultaneos
       /\ mo.tiempo_simulacion - mo.tiempo_ultimo_vehiculo >= TiempoEntreVehiculos
       /\ ParesAleatorios(g) # {}
    THEN AnotarGeneracion(mo, crear_vehiculo(g, ar, ge, vs, par[1], par[2], velocidad))
    ELSE [estado |-> "no", ar |-> ar, ge |-> ge, vs |-> vs, mo |-> mo]

RECURSIVE RecalcularPesos(_, _, _)
RecalcularPesos(ar, lista, i) ==
    IF i > Len(lista) THEN ar
    ELSE RecalcularPesos([ar EXCEPT ![lista[i]] = calcular_peso_dinamico(@)], lista, i + 1)

\* Faulty variant of actualizar_pesos_dinamicos: no weight is recomputed
PesosSinRecalcular(g, ar) == ar

\* _actualizar_pesos_dinamicos
actualizar_pesos_dinamicos(g, ar) ==
    RecalcularPesos(ar, obtener_todas_aristas(g), 1)

\* MotorSimulacion.actualizar: [estado, ar, ge, vs, mo]. An exception raised
\* while spawning leaves the tick after tiempo_simulacion was advanced and
\* before any vehicle is moved or any weight recomputed.
\* the last step of a tick: a is the return of actualizar_simulacion
RecalcularTrasMover(g, mo, a) ==
    [estado |-> "ok",
     ar |-> actualizar_pesos_dinamicos(g, a.ar),
     ge |-> a.ge, vs |-> a.vs, mo |-> mo]

\* the tick after _generar_vehiculos_automaticos, whose return is s
MoverTrasGenerar(g, delta_tiempo, s) ==
    IF s.estado = "TypeError"
    THEN s
    ELSE RecalcularTrasMover(g, s.mo,
                             actualizar_simulacion(s.ar, s.ge, s.vs, delta_tiempo))

\* Faulty variant of actualizar: the pause flag is not looked at
ActualizarSinPausa(g, ar, ge, vs, mo, delta_tiempo_real, par, velocidad) ==
    MoverTrasGenerar(
        g,
        delta_tiempo_real * mo.velocidad_simulacion,
        generar_vehiculos_automaticos(
            g, ar, ge, vs,
            [mo EXCEPT !.tiempo_simulacion =
                           @ + delta_tiempo_real * mo.velocidad_simulacion],
            par, velocidad))

actualizar(g, ar, ge, vs, mo, delta_tiempo_real, par, velocidad) ==
    IF mo.pausado
    THEN [estado |-> "pausado", ar |-> ar, ge |-> ge, vs |-> vs, mo |-> mo]
    ELSE MoverTrasGenerar(
             g,
             delta_tiempo_real * mo.velocidad_simulacion,
             generar_vehiculos_automaticos(
                 g, ar, ge, vs,
                 [mo EXCEPT !.tiempo_simulacion =
                                @ + delta_tiempo_real * mo.velocidad_simulacion],
                 par, velocidad))

RECURSIVE EliminarVehiculos(_, _, _, _, _)
\* reiniciar_simulacion's first loop, over the values read before it starts
EliminarVehiculos(ar, ge, vs, ids, i) ==
    IF i > Len(ids) THEN [ar |-> ar, ge |-> ge]
    ELSE LET r == eliminar_vehiculo(ar, ge, vs, vs[ids[i]].id)
         IN EliminarVehiculos(r.ar, r.ge, vs, ids, i + 1)

RECURSIVE VaciarAristas(_, _, _)
VaciarAristas(ar, lista, i) ==
    IF i > Len(lista) THEN ar
    ELSE VaciarAristas(
             [ar EXCEPT ![lista[i]] = calcular_peso_dinamico([@ EXCEPT !.carga_trafico = 0])],
             lista, i + 1)

\* reiniciar_simulacion: [ar, ge, mo]
reiniciar_simulacion(g, ar, ge, vs, mo) ==
    LET r == EliminarVehiculos(ar, ge, vs, HT_obtener_valores(ge.vehiculos), 1)
    IN [ar |-> VaciarAristas(r.ar, obtener_todas_aristas(g), 1),
        ge |-> [r.ge EXCEPT !.estadisticas = EstadisticasIniciales],
        mo |-> [mo EXCEPT !.tiempo_simulacion = 0, !.tiempo_ultimo_vehiculo = 0]]

pausar_reanudar(mo) == [mo EXCEPT !.pausado = ~@]

\* ------------------------------------------------------------------------
\* The program: construction, then any sequence of public operations
\* ------------------------------------------------------------------------
Ids == 1..MaxNodos

Init ==
    /\ grafo = GrafoTrafico
    /\ aristas = << >>
    /\ gestor = GestorVehiculos
    /\ vehs = << >>
    /\ motor = MotorSimulacion
    /\ excepcion = ""

AgregarNodo ==
    /\ grafo.contador_nodos < MaxNodos
    /\ \E c \in Coords :
          grafo' = agregar_nodo(grafo, c[1], c[2])
    /\ excepcion' = ""
    /\ UNCHANGED <<aristas, gestor, vehs, motor>>

AgregarArista ==
    \E id_origen, id_destino \in Ids, peso \in Pesos, bidireccional \in BOOLEAN :
        /\ (HT_tiene(grafo.nodos, id_origen) /\ HT_tiene(grafo.nodos, id_destino))
               => Len(aristas) + (IF bidireccional THEN 2 ELSE 1) <= MaxAristas
        /\ \E r \in {llamar_agregar_arista(grafo, aristas, id_origen, id_destino,
                                            peso, bidireccional)} :
               /\ grafo' = r.g
               /\ aristas' = r.ar
        /\ excepcion' = ""
        /\ UNCHANGED <<gestor, vehs, motor>>

EliminarNodo ==
    \E id_nodo \in Ids :
        /\ grafo' = llamar_eliminar_nodo(grafo, aristas, id_nodo).g
        /\ excepcion' = ""
        /\ UNCHANGED <<aristas, gestor, vehs, motor>>

BloquearArista ==
    \E id_origen, id_destino \in Ids :
        LET r == bloquear_arista(grafo, aristas, id_origen, id_destino)
        IN /\ aristas' = r.ar
           /\ excepcion' = ""
           /\ UNCHANGED <<grafo, gestor, vehs, motor>>

DesbloquearArista ==
    \E id_origen, id_destino \in Ids :
        LET r == desbloquear_arista(grafo, aristas, id_origen, id_destino)
        IN /\ aristas' = r.ar
           /\ excepcion' = ""
           /\ UNCHANGED <<grafo, gestor, vehs, motor>>

CrearVehiculo ==
    /\ gestor.contador_vehiculos < MaxVehiculos
    /\ \E id_origen, id_destino \in Ids, velocidad \in Velocidades :
          \E r \in {crear_vehiculo(grafo, aristas, gestor, vehs,
                                  id_origen, id_destino, velocidad)} :
             /\ aristas' = r.ar
             /\ gestor' = r.ge
             /\ vehs' = r.vs
             /\ excepcion' = IF r.estado = "TypeError" THEN "TypeError" ELSE ""
    /\ UNCHANGED <<grafo, motor>>

\* whether a tick of delta_tiempo_real reaches crear_vehiculo
TickCreaVehiculo(delta_tiempo_real) ==
    /\ ~motor.pausado
    /\ Len(LE_obtener_lista(gestor.vehiculos_activos)) < MaxVehiculosSimultaneos
    /\ motor.tiempo_simulacion + delta_tiempo_real * motor.velocidad_simulacion
           - motor.tiempo_ultimo_vehiculo >= TiempoEntreVehiculos
    /\ ParesAleatorios(grafo) # {}

Actualizar ==
    /\ motor.tiempo_simulacion < MaxTiempo
    /\ \E delta_tiempo_real \in DeltaTs :
       \E velocidad \in (IF TickCreaVehiculo(delta_tiempo_real)
                          THEN Velocidades ELSE {30}),
          par \in (IF TickCreaVehiculo(delta_tiempo_real)
                   THEN ParesAleatorios(grafo) ELSE {<<0, 0>>}) :
          /\ TickCreaVehiculo(delta_tiempo_real) => gestor.contador_vehiculos < MaxVehiculos
          /\ \E r \in {actualizar(grafo, aristas, gestor, vehs, motor,
                                   delta_tiempo_real, par, velocidad)} :
                /\ aristas' = r.ar
                /\ gestor' = r.ge
                /\ vehs' = r.vs
                /\ motor' = r.mo
                /\ excepcion' = IF r.estado = "TypeError" THEN "TypeError" ELSE ""
    /\ UNCHANGED grafo

EliminarVehiculo ==
    /\ \E id_vehiculo \in 1..MaxVehiculos :
          \E r \in {eliminar_vehiculo(aristas, gestor, vehs, id_vehiculo)} :
             /\ aristas' = r.ar
             /\ gestor' = r.ge
             /\ excepcion' = ""
    /\ UNCHANGED <<grafo, vehs, motor>>

LimpiarVehiculosCompletados ==
    /\ gestor' = limpiar_vehiculos_completados(gestor)
    /\ excepcion' = ""
    /\ UNCHANGED <<grafo, aristas, vehs, motor>>

ReiniciarSimulacion ==
    /\ \E r \in {reiniciar_simulacion(grafo, aristas, gestor, vehs, motor)} :
          /\ aristas' = r.ar
          /\ gestor' = r.ge
          /\ motor' = r.mo
    /\ excepcion' = ""
    /\ UNCHANGED <<grafo, vehs>>

PausarReanudar ==
    /\ motor' = pausar_reanudar(motor)
    /\ excepcion' = ""
    /\ UNCHANGED <<grafo, aristas, gestor, vehs>>

IdentificarPuntosCriticos ==
    /\ \E r \in {identificar_puntos_criticos(grafo, aristas)} :
          /\ aristas' = r.ar
          /\ excepcion' = IF r.estado = "TypeError" THEN "TypeError" ELSE ""
    /\ UNCHANGED <<grafo, gestor, vehs, motor>>

GenerarReporteTrafico ==
    /\ \E r \in {generar_reporte_trafico(grafo, aristas)} :
          /\ aristas' = r.ar
          /\ excepcion' = IF r.estado = "TypeError" THEN "TypeError" ELSE ""
    /\ UNCHANGED <<grafo, gestor, vehs, motor>>

Next ==
    \/ AgregarNodo
    \/ AgregarArista
    \/ EliminarNodo
    \/ BloquearArista
    \/ DesbloquearArista
    \/ CrearVehiculo
    \/ Actualizar
    \/ EliminarVehiculo
    \/ LimpiarVehiculosCompletados
    \/ ReiniciarSimulacion
    \/ PausarReanudar
    \/ IdentificarPuntosCriticos
    \/ GenerarReporteTrafico

Spec == Init /\ [][Next]_vars

\* the graph operations and the analyzer alone
NextGrafo ==
    \/ AgregarNodo
    \/ AgregarArista
    \/ EliminarNodo
    \/ BloquearArista
    \/ DesbloquearArista
    \/ IdentificarPuntosCriticos
    \/ GenerarReporteTrafico

SpecGrafo == Init /\ [][NextGrafo]_vars

\* The three-node graphs: nodes at (0,0), (100,0) and (100,100) in this
\* order, and up to MaxAristasEscenario one-way edges of weight 1 or 10
\* between them.  Weight 1 makes agregar_arista take the distance of the two
\* nodes, a whole number except between the first node and the third.
CoordsEscenario == << <<0, 0>>, <<100, 0>>, <<100, 100>> >>
PesosEscenario == {1, 10}
MaxAristasEscenario == 3

AgregarNodoEscenario ==
    /\ grafo.contador_nodos < Len(CoordsEscenario)
    /\ \E c \in {CoordsEscenario[grafo.contador_nodos + 1]} :
          grafo' = agregar_nodo(grafo, c[1], c[2])
    /\ excepcion' = ""
    /\ UNCHANGED <<aristas, gestor, vehs, motor>>

AgregarAristaEscenario ==
    \E id_origen, id_destino \in 1..Len(CoordsEscenario), peso \in PesosEscenario :
        /\ Len(aristas) < MaxAristasEscenario
        /\ peso = 1 => {id_origen, id_destino} # {1, 3}
        /\ \E r \in {llamar_agregar_arista(grafo, aristas, id_origen, id_destino,
                                            peso, FALSE)} :
               /\ grafo' = r.g
               /\ aristas' = r.ar
        /\ excepcion' = ""
        /\ UNCHANGED <<gestor, vehs, motor>>

NextEscenario ==
    \/ AgregarNodoEscenario
    \/ AgregarAristaEscenario

SpecEscenario == Init /\ [][NextEscenario]_vars

\* ------------------------------------------------------------------------
\* Vocabulary of the properties
\* ------------------------------------------------------------------------
\* ids a caller may pass: the ids agregar_nodo can have given, and one more
\* that is never a node
IdsConsulta == 1..(MaxNodos + 1)

SeqASet(l) == {l[i] : i \in 1..Len(l)}

\* the node ids and the edge objects of the graph
NodosDe(g) == SeqASet(HT_obtener_claves(g.nodos))
AristasDe(g) == SeqASet(obtener_todas_aristas(g))

\* the edges routing may use: not blocked, into an active node
AristasVivas(g, ar) == {e \in AristasDe(g) : ~ar[e].bloqueada /\ ar[e].destino.activo}

RECURSIVE Relajacion(_, _, _, _)
\* k rounds of relaxing every live edge (Bellman-Ford), from a distance map
Relajacion(g, ar, dist, k) ==
    IF k = 0 THEN dist
    ELSE Relajacion(g, ar,
             [n \in DOMAIN dist |->
                 LET llegan == {dist[ar[e].origen.id] + ar[e].peso_actual :
                                  e \in {x \in AristasVivas(g, ar) :
                                           /\ ar[x].destino.id = n
                                           /\ ar[x].origen.id \in DOMAIN dist
                                           /\ dist[ar[x].origen.id] < Infinito}}
                     todas == llegan \cup {dist[n]}
                 IN CHOOSE m \in todas : \A x \in todas : m <= x],
             k - 1)

\* the least sum of peso_actual over the paths of live edges from origen to
\* every node; Infinito where there is no path
DistanciasMinimas(g, ar, origen) ==
    Relajacion(g, ar,
               [n \in NodosDe(g) |-> IF n = origen THEN 0 ELSE Infinito],
               Cardinality(NodosDe(g)))

Alcanzable(g, ar, origen, destino) ==
    /\ origen \in NodosDe(g)
    /\ destino \in NodosDe(g)
    /\ DistanciasMinimas(g, ar, origen)[destino] < Infinito

\* the registered vehicles that are traveling on edge e
VehiculosEn(ge, vs, e) ==
    {id \in SeqASet(HT_obtener_claves(ge.vehiculos)) :
        LET v == vs[HT_valor(ge.vehiculos, id)]
        IN /\ v.estado = "viajando"
           /\ v.indice_ruta_actual < Len(v.ruta_aristas)
           /\ v.ruta_aristas[v.indice_ruta_actual + 1] = e}

C2_DistanciaMinima ==
    \A o, d \in NodosDe(grafo) :
        Alcanzable(grafo, aristas, o, d) =>
            LET r == encontrar_ruta_mas_corta(grafo, aristas, o, d)
            IN /\ r.estado = "ok"
               /\ r.distancia = Some(DistanciasMinimas(grafo, aristas, o)[d])

\* ------------------------------------------------------------------------
\* C3  insertar on a key that is already present completes normally, keeps
\*     the number of entries, makes obtener of that key return the new
\*     value and leaves every other key's value alone. Checked on the table
\*     distancias at the point where encontrar_ruta_mas_corta writes the
\*     origin's distance 0 over the initial inf.
\* ------------------------------------------------------------------------
C3_InsertarSobrescribe ==
    \A k \in NodosDe(grafo) :
        LET t == D_inicializar(D_nuevo, HT_obtener_claves(grafo.nodos), 1).distancias
            r == HT_insertar(t, k, 0)
        IN /\ ~r.error
           /\ r.t.tamano = t.tamano
           /\ HT_obtener(r.t, k) = Some(0)
           /\ \A j \in NodosDe(grafo) \ {k} : HT_obtener(r.t, j) = HT_obtener(t, j)

\* ------------------------------------------------------------------------
\* C4  In every reachable state every non-blocked edge of the graph has
\*     peso_actual = peso_base * (1 + 2 * carga_trafico / max(capacidad, 1)).
\* ------------------------------------------------------------------------
C4_PesoSegunCarga ==
    \A e \in AristasDe(grafo) :
        ~aristas[e].bloqueada =>
            aristas[e].peso_actual * Max(aristas[e].capacidad_maxima, 1) =
                aristas[e].peso_base
                    * (Max(aristas[e].capacidad_maxima, 1) + 2 * aristas[e].carga_trafico)

\* crear_vehiculo has been called and a tick has recomputed the weights of a
\* graph that holds a non-blocked edge of non-zero weight next to a blocked
\* one
C4_Testigo ==
    /\ motor.tiempo_simulacion > 0
    /\ motor.tiempo_simulacion - motor.tiempo_ultimo_vehiculo < TiempoEntreVehiculos
    /\ gestor.contador_vehiculos > 0
    /\ excepcion = ""
    /\ \E e1, e2 \in AristasDe(grafo) :
          /\ ~aristas[e1].bloqueada
          /\ aristas[e1].peso_base > 0
          /\ aristas[e2].bloqueada

ListaDe(g, id) == IF id \in NodosDe(g) THEN HT_valor(g.lista_adyacencia, id) ELSE << >>

\* the positions of id's list that hold a live edge
PosicionesVivas(g, ar, id) ==
    {j \in 1..Len(ListaDe(g, id)) :
        ~ar[ListaDe(g, id)[j]].bloqueada /\ ar[ListaDe(g, id)[j]].destino.activo}

\* the k-th smallest element of a set of numbers
KEsimo(S, k) == CHOOSE j \in S : Cardinality({i \in S : i < j}) = k - 1

VecinosEsperados(g, ar, id) ==
    LET S == PosicionesVivas(g, ar, id)
    IN [k \in 1..Cardinality(S) |->
           LET a == ar[ListaDe(g, id)[KEsimo(S, k)]]
           IN <<a.destino, a.peso_actual>>]

C6_VecinosExactos ==
    /\ \A id \in IdsConsulta :
          obtener_vecinos(grafo, aristas, id) = VecinosEsperados(grafo, aristas, id)
    /\ \A o, d \in Ids :
          LET b == bloquear_arista(grafo, aristas, o, d)
              u == desbloquear_arista(grafo, b.ar, o, d)
              e == PrimeraArista(aristas, obtener_aristas_nodo(grafo, o), 1, d)
              j == LE_indice(ListaDe(grafo, o), e, 1)
          IN b.ok =>
                /\ u.ok
                /\ obtener_vecinos(grafo, b.ar, o) = VecinosEsperados(grafo, b.ar, o)
                /\ Len(obtener_vecinos(grafo, b.ar, o)) =
                       Cardinality(PosicionesVivas(grafo, aristas, o) \ {j})
                /\ Len(obtener_vecinos(grafo, u.ar, o)) =
                       Cardinality(PosicionesVivas(grafo, aristas, o) \cup {j})

\* a node with a blocked and a non-blocked outgoing edge
C6_Testigo ==
    \E id \in NodosDe(grafo) :
        \E j1, j2 \in 1..Len(ListaDe(grafo, id)) :
            /\ aristas[ListaDe(grafo, id)[j1]].bloqueada
            /\ ~aristas[ListaDe(grafo, id)[j2]].bloqueada
            /\ j1 < j2

\* ------------------------------------------------------------------------
\* C7  encontrar_ruta_mas_corta returns the no-path result (no distance,
\*     empty node and edge sequences) whenever the origin or the destination
\*     is not a node or the destination is not reachable over live edges.
\* ------------------------------------------------------------------------
C7_SinRuta ==
    \A o, d \in IdsConsulta :
        ~Alcanzable(grafo, aristas, o, d) =>
            encontrar_ruta_mas_corta(grafo, aristas, o, d) = NoRuta

\* ------------------------------------------------------------------------
\* C8  For every origin in the graph and every reachable destination d, the
\*     distance encontrar_rutas_multiples stores for d is the distance
\*     encontrar_ruta_mas_corta returns for (origin, d).
\* ------------------------------------------------------------------------
C8_MultiplesIgualUnica ==
    \A o, d \in NodosDe(grafo) :
        Alcanzable(grafo, aristas, o, d) =>
            LET m == encontrar_rutas_multiples(grafo, aristas, o, <<d>>)
                r == encontrar_ruta_mas_corta(grafo, aristas, o, d)
            IN /\ m.estado = "ok"
               /\ r.estado = "ok"
               /\ Len(m.rutas) = 1
               /\ m.rutas[1].destino = d
               /\ m.rutas[1].distancia = r.distancia

\* ------------------------------------------------------------------------
\* C9  Every key of the mapping encontrar_rutas_multiples returns is a
\*     destination with a finite distance and a path from the origin; a
\*     requested id that is not a node of the graph has no entry.
\* ------------------------------------------------------------------------
DestinosConsulta == {<<d>> : d \in IdsConsulta} \cup {<<d1, d2>> : d1, d2 \in IdsConsulta}

C9_SoloAlcanzables ==
    \A o \in IdsConsulta, destinos \in DestinosConsulta :
        LET m == encontrar_rutas_multiples(grafo, aristas, o, destinos)
        IN m.estado = "ok" =>
              \A i \in 1..Len(m.rutas) :
                  /\ m.rutas[i].destino \in NodosDe(grafo)
                  /\ m.rutas[i].distancia # None
                  /\ m.rutas[i].distancia.val < Infinito

\* ------------------------------------------------------------------------
\* C10 Every vehicle crear_vehiculo puts in state "viajando" reaches
\*     "arribado" when ticks with dt > 0 keep occurring and it is neither
\*     removed nor reset, whatever its origin and destination; crear_vehiculo
\*     returns a vehicle for every pair of nodes joined by a path. Stated on
\*     the run that creates the vehicle and then advances it
\*     TicksSuficientes times.
\* ------------------------------------------------------------------------
RECURSIVE TrasTicks(_, _, _, _)
\* the vehicle after k calls of actualizar_posicion(delta_tiempo)
TrasTicks(v, ar, delta_tiempo, k) ==
    IF k = 0 THEN v
    ELSE LET r == actualizar_posicion(v, ar, delta_tiempo)
         IN TrasTicks(r.v, r.ar, delta_tiempo, k - 1)

\* every edge is at most 250 long and every tick covers at least 30 * 6, so
\* two ticks complete an edge; one more tick records the arrival
TicksSuficientes == 2 * MaxAristas + 1

Llamadas(g, ar) ==
    {[o |-> o, d |-> d, r |-> NoRuta] : o, d \in NodosDe(g)}
    \cup {[o |-> o, d |-> o,
           r |-> [estado |-> "ok", distancia |-> Some(0),
                  ruta_nodos |-> <<o>>, ruta_aristas |-> << >>]] : o \in NodosDe(g)}
    \cup {[o |-> ar[e].origen.id, d |-> ar[e].destino.id,
           r |-> [estado |-> "ok", distancia |-> Some(ar[e].peso_actual),
                  ruta_nodos |-> <<ar[e].origen.id, ar[e].destino.id>>,
                  ruta_aristas |-> <<e>>]] : e \in AristasDe(g)}
    \cup {[o |-> ar[p[1]].origen.id, d |-> ar[p[2]].destino.id,
           r |-> [estado |-> "ok",
                  distancia |-> Some(ar[p[1]].peso_actual + ar[p[2]].peso_actual),
                  ruta_nodos |-> <<ar[p[1]].origen.id, ar[p[1]].destino.id,
                                   ar[p[2]].destino.id>>,
                  ruta_aristas |-> <<p[1], p[2]>>]] :
             p \in {q \in AristasDe(g) \X AristasDe(g) :
                      ar[q[1]].destino.id = ar[q[2]].origen.id}}

\* crear_vehiculo(ll.o, ll.d) when the engine answers ll.r
CrearConRespuesta(g, ar, ge, vs, ll, velocidad) ==
    RegistrarVehiculo(ar,
                      [ge EXCEPT !.contador_vehiculos = @ + 1],
                      vs,
                      Vehiculo(ge.contador_vehiculos + 1,
                               HT_valor(g.nodos, ll.o),
                               HT_valor(g.nodos, ll.d), velocidad),
                      ll.r)

RECURSIVE EstadoTrasTicks(_, _, _, _)
\* the vehicle and the edges after k calls of actualizar_posicion
EstadoTrasTicks(v, ar, delta_tiempo, k) ==
    IF k = 0 THEN [v |-> v, ar |-> ar]
    ELSE LET r == actualizar_posicion(v, ar, delta_tiempo)
         IN EstadoTrasTicks(r.v, r.ar, delta_tiempo, k - 1)

Terminal(v) == v.estado \in {"arribado", "bloqueado"}

\* ------------------------------------------------------------------------
\* C11 A vehicle leaves "planificando" for "viajando" or "bloqueado" only,
\*     and "viajando" for "arribado" only; once it is "arribado" or
\*     "bloqueado", ticks and block / unblock operations change neither its
\*     state, nor its route, nor the load of any edge.
\* ------------------------------------------------------------------------
C11_MaquinaDeEstados ==
    \A ll \in Llamadas(grafo, aristas), velocidad \in Velocidades, dt \in DeltaTs :
        LET c == CrearConRespuesta(grafo, aristas, gestor, vehs, ll, velocidad)
            v1 == c.vs[gestor.contador_vehiculos + 1]
        IN /\ v1.estado \in {"viajando", "bloqueado"}
           /\ \A k \in 0..TicksSuficientes :
                 LET a == EstadoTrasTicks(v1, c.ar, dt, k)
                     b == actualizar_posicion(a.v, a.ar, dt)
                 IN /\ \/ b.v.estado = a.v.estado
                       \/ a.v.estado = "viajando" /\ b.v.estado = "arribado"
                    /\ Terminal(a.v) =>
                          /\ b = a
                          /\ \A o, d \in Ids :
                                LET blo == bloquear_arista(grafo, a.ar, o, d).ar
                                    des == desbloquear_arista(grafo, a.ar, o, d).ar
                                IN /\ actualizar_posicion(a.v, blo, dt) = [v |-> a.v, ar |-> blo]
                                   /\ actualizar_posicion(a.v, des, dt) = [v |-> a.v, ar |-> des]

\* the graph lets one vehicle arrive over an edge between two nodes and
\* leaves another blocked
C11_Testigo ==
    \E l1, l2 \in Llamadas(grafo, aristas), velocidad \in Velocidades, dt \in DeltaTs :
        /\ l1.r.ruta_aristas # << >>
        /\ l1.o # l1.d
        /\ LET c == CrearConRespuesta(grafo, aristas, gestor, vehs, l1, velocidad)
           IN EstadoTrasTicks(c.vs[gestor.contador_vehiculos + 1], c.ar, dt,
                              TicksSuficientes).v.estado = "arribado"
        /\ l2.r = NoRuta
        /\ CrearConRespuesta(grafo, aristas, gestor, vehs, l2, velocidad)
              .vs[gestor.contador_vehiculos + 1].estado = "bloqueado"

\* ------------------------------------------------------------------------
\* C12 crear_vehiculo on two nodes of the graph returns a vehicle that is
\*     "viajando" exactly when the path engine returned a non-empty route
\*     and "bloqueado" otherwise; when "viajando", the load of its first
\*     route edge has grown by exactly 1 and no other load has changed; when
\*     "bloqueado", no load has changed.
\* ------------------------------------------------------------------------
C12_EstadoSegunRuta ==
    \A o, d \in NodosDe(grafo), velocidad \in Velocidades :
        LET c == crear_vehiculo(grafo, aristas, gestor, vehs, o, d, velocidad)
            r == encontrar_ruta_mas_corta(grafo, aristas, o, d)
        IN /\ c.estado = "ok"
           /\ r.estado = "ok"
           /\ LET v == c.vs[c.ge.contador_vehiculos]
              IN /\ v.estado = (IF r.ruta_nodos # << >> THEN "viajando" ELSE "bloqueado")
                 /\ \A e \in 1..Len(aristas) :
                       c.ar[e].carga_trafico =
                           aristas[e].carga_trafico
                               + (IF /\ v.estado = "viajando"
                                     /\ v.ruta_aristas # << >>
                                     /\ v.ruta_aristas[1] = e
                                  THEN 1 ELSE 0)

\* ------------------------------------------------------------------------
\* C13 Whenever a vehicle is "arribado", its position is the coordinate of
\*     its destination node, its indice_ruta_actual is the number of its
\*     route edges, and it contributes to no edge's load (every load is what
\*     it was before the vehicle was created).
\* ------------------------------------------------------------------------
C13_ArribadoEnDestino ==
    \A ll \in Llamadas(grafo, aristas), velocidad \in Velocidades, dt \in DeltaTs :
        LET c == CrearConRespuesta(grafo, aristas, gestor, vehs, ll, velocidad)
        IN \A k \in 0..(TicksSuficientes + 1) :
              LET a == EstadoTrasTicks(c.vs[gestor.contador_vehiculos + 1], c.ar, dt, k)
              IN a.v.estado = "arribado" =>
                    /\ a.v.posicion_x = REntero(HT_valor(grafo.nodos, ll.d).x)
                    /\ a.v.posicion_y = REntero(HT_valor(grafo.nodos, ll.d).y)
                    /\ a.v.indice_ruta_actual = Len(a.v.ruta_aristas)
                    /\ \A e \in 1..Len(aristas) :
                          a.ar[e].carga_trafico = aristas[e].carga_trafico

\* a vehicle has arrived at another node over a route of two edges
C13_Testigo ==
    \E ll \in Llamadas(grafo, aristas), velocidad \in Velocidades, dt \in DeltaTs :
        /\ Len(ll.r.ruta_aristas) = 2
        /\ ll.o # ll.d
        /\ LET c == CrearConRespuesta(grafo, aristas, gestor, vehs, ll, velocidad)
           IN \E k \in 1..TicksSuficientes :
                 EstadoTrasTicks(c.vs[gestor.contador_vehiculos + 1], c.ar, dt, k)
                     .v.estado = "arribado"

\* the calls of Llamadas whose answer is the one the query owes: no route
\* exactly where no path of live edges exists, otherwise a path of live
\* edges of least total weight that visits no node twice
RespuestasDebidas(g, ar) ==
    {ll \in Llamadas(g, ar) :
        IF ll.r = NoRuta
        THEN ~Alcanzable(g, ar, ll.o, ll.d)
        ELSE /\ Cardinality(SeqASet(ll.r.ruta_nodos)) = Len(ll.r.ruta_nodos)
             /\ \A i \in 1..Len(ll.r.ruta_aristas) :
                   ll.r.ruta_aristas[i] \in AristasVivas(g, ar)
             /\ ll.r.distancia.val = DistanciasMinimas(g, ar, ll.o)[ll.d]}

RECURSIVE SimularTicks(_, _, _, _, _)
\* the edges, the manager and the vehicles after k calls of
\* actualizar_simulacion
SimularTicks(ar, ge, vs, delta_tiempo, k) ==
    IF k = 0 THEN [ar |-> ar, ge |-> ge, vs |-> vs]
    ELSE LET s == actualizar_simulacion(ar, ge, vs, delta_tiempo)
         IN SimularTicks(s.ar, s.ge, s.vs, delta_tiempo, k - 1)

\* what a reset must leave behind; r is the result of reiniciar_simulacion
ReinicioLimpio(r) ==
    /\ HT_obtener_claves(r.ge.vehiculos) = << >>
    /\ LE_obtener_lista(r.ge.vehiculos_activos) = << >>
    /\ LE_obtener_lista(r.ge.vehiculos_completados) = << >>
    /\ \A e \in AristasDe(grafo) : r.ar[e].carga_trafico = 0
    /\ r.mo.tiempo_simulacion = 0
    /\ r.mo.tiempo_ultimo_vehiculo = 0
    /\ r.ge.estadisticas = EstadisticasIniciales

EscenarioABC ==
    /\ grafo.contador_nodos = 3
    /\ NodosDe(grafo) = {1, 2, 3}
    /\ obtener_aristas_nodo(grafo, 1) = <<1, 3>>
    /\ obtener_aristas_nodo(grafo, 2) = <<2>>
    /\ obtener_aristas_nodo(grafo, 3) = << >>
    /\ aristas[1].destino.id = 2
    /\ aristas[2].destino.id = 3
    /\ aristas[3].destino.id = 3
    /\ aristas[3].peso_base = 10 * Den

\* ------------------------------------------------------------------------
\* C16 On the graph with nodes A(0,0), B(100,0), C(100,100) built by
\*     agregar_arista(A,B,1,False), agregar_arista(B,C,1,False) and
\*     agregar_arista(A,C,10,False), encontrar_ruta_mas_corta(A,C) returns
\*     distance 2 and the node sequence [A,B,C].
\* ------------------------------------------------------------------------
C16_EscenarioRutaMasCorta ==
    EscenarioABC =>
        LET r == encontrar_ruta_mas_corta(grafo, aristas, 1, 3)
        IN /\ r.estado = "ok"
           /\ r.distancia = Some(2 * Den)
           /\ r.ruta_nodos = <<1, 2, 3>>

\* ------------------------------------------------------------------------
\* C17 agregar_arista called with an explicit weight w creates edge records
\*     whose peso_base and initial peso_actual equal w, for every w (the
\*     distance / 50 default is for calls that give no weight).
\* ------------------------------------------------------------------------
C17_PesoExplicito ==
    \A id_origen, id_destino \in NodosDe(grafo), peso \in Pesos,
       bidireccional \in BOOLEAN :
        LET r == llamar_agregar_arista(grafo, aristas, id_origen, id_destino,
                                       peso, bidireccional)
        IN /\ r.ok
           /\ Len(r.ar) = Len(aristas) + (IF bidireccional THEN 2 ELSE 1)
           /\ \A e \in (Len(aristas) + 1)..Len(r.ar) :
                 /\ r.ar[e].peso_base = peso * Den
                 /\ r.ar[e].peso_actual = peso * Den

\* ------------------------------------------------------------------------
\* C18 In every state reachable by agregar_nodo, agregar_arista,
\*     eliminar_nodo, bloquear_arista and desbloquear_arista, every edge is
\*     stored under the adjacency list of its own origin id, its origin and
\*     its destination are nodes of the graph, and validar_integridad
\*     returns an empty problem list.
\* ------------------------------------------------------------------------
C18_IntegridadDelGrafo ==
    /\ \A n \in SeqASet(HT_obtener_claves(grafo.lista_adyacencia)) :
          /\ n \in NodosDe(grafo)
          /\ \A e \in SeqASet(obtener_aristas_nodo(grafo, n)) :
                aristas[e].origen.id = n
    /\ \A e \in AristasDe(grafo) :
          /\ aristas[e].origen.id \in NodosDe(grafo)
          /\ aristas[e].destino.id \in NodosDe(grafo)
    /\ validar_integridad(grafo, aristas) = << >>

\* eliminar_nodo has removed a node and pruned an edge into it from the list
\* of a node that is still there and still has an edge
C18_Testigo ==
    /\ AristasDe(grafo) # {}
    /\ \E e \in 1..Len(aristas) :
          /\ e \notin AristasDe(grafo)
          /\ aristas[e].origen.id \in NodosDe(grafo)
          /\ aristas[e].destino.id \notin NodosDe(grafo)

\* ------------------------------------------------------------------------
\* C19 eliminar_nodo(id) on a node returns true; afterwards id is not a
\*     node, no adjacency list holds an edge from or into id, every other
\*     node is the same record, and every other node's list holds, in the
\*     same order, exactly its former edges that do not lead into id.  On an
\*     id that is not a node it returns false and the graph is unchanged.
\*     (The edge records are not written: the call yields a graph only.)
\* ------------------------------------------------------------------------
C19_EliminarNodoMarco ==
    \A id \in IdsConsulta :
        LET r == llamar_eliminar_nodo(grafo, aristas, id)
        IN IF id \in NodosDe(grafo)
           THEN /\ r.ok
                /\ NodosDe(r.g) = NodosDe(grafo) \ {id}
                /\ SeqASet(HT_obtener_claves(r.g.lista_adyacencia)) = NodosDe(r.g)
                /\ \A n \in NodosDe(r.g) :
                      /\ HT_valor(r.g.nodos, n) = HT_valor(grafo.nodos, n)
                      /\ obtener_aristas_nodo(r.g, n) =
                             FiltrarSeq(obtener_aristas_nodo(grafo, n),
                                        {e \in 1..Len(aristas) : aristas[e].destino.id # id},
                                        1)
                      /\ \A e \in SeqASet(obtener_aristas_nodo(r.g, n)) :
                            /\ aristas[e].origen.id # id
                            /\ aristas[e].destino.id # id
           ELSE /\ ~r.ok
                /\ r.g = grafo

\* a node with an edge into it from another node, which itself has an edge
\* that does not touch the first node
C19_Testigo ==
    \E id \in NodosDe(grafo), e1, e2 \in AristasDe(grafo) :
        /\ aristas[e1].destino.id = id
        /\ aristas[e1].origen.id # id
        /\ aristas[e2].origen.id # id
        /\ aristas[e2].destino.id # id
        /\ llamar_eliminar_nodo(grafo, aristas, id).ok

\* ------------------------------------------------------------------------
\* C20 agregar_arista returns true exactly when both endpoints are nodes of
\*     the graph; when it returns false no edge record is created, no
\*     adjacency list changes and every node and edge is as before; when it
\*     returns true it has created one record (two if bidirectional).
\* ------------------------------------------------------------------------
C20_AgregarAristaExtremos ==
    \A id_origen, id_destino \in IdsConsulta, peso \in Pesos,
       bidireccional \in BOOLEAN :
        LET r == llamar_agregar_arista(grafo, aristas, id_origen, id_destino,
                                       peso, bidireccional)
        IN /\ r.ok <=> (id_origen \in NodosDe(grafo) /\ id_destino \in NodosDe(grafo))
           /\ ~r.ok => (r.g = grafo /\ r.ar = aristas)
           /\ r.ok => /\ Len(r.ar) = Len(aristas) + (IF bidireccional THEN 2 ELSE 1)
                      /\ \A e \in 1..Len(aristas) : r.ar[e] = aristas[e]

\* the graph has an edge, a node that was removed and a node that remains:
\* calls naming the removed node or an id never given fail, a call between
\* nodes succeeds
C20_Testigo ==
    /\ AristasDe(grafo) # {}
    /\ \E o \in NodosDe(grafo), d \in Ids \ NodosDe(grafo), peso \in Pesos :
          /\ d <= grafo.contador_nodos
          /\ ~llamar_agregar_arista(grafo, aristas, o, d, peso, FALSE).ok
          /\ ~llamar_agregar_arista(grafo, aristas, MaxNodos + 1, o, peso, TRUE).ok
          /\ llamar_agregar_arista(grafo, aristas, o, o, peso, FALSE).ok

\* every non-blocked edge of the graph carries, in the edge records ar, the
\* weight its load gives it
PesoSegunCargaEn(ar) ==
    \A e \in AristasDe(grafo) :
        ~ar[e].bloqueada =>
            ar[e].peso_actual * Max(ar[e].capacidad_maxima, 1) =
                ar[e].peso_base * (Max(ar[e].capacidad_maxima, 1) + 2 * ar[e].carga_trafico)

CargaIgualEn(ar, ge, vs) ==
    \A e \in AristasDe(grafo) :
        ar[e].carga_trafico = Cardinality(VehiculosEn(ge, vs, e))

\* ------------------------------------------------------------------------
\* C1  (with a vehicle on the road) The load of every edge is the number of
\*     registered "viajando" vehicles whose current route edge it is, after
\*     a vehicle was registered for an engine answer, after each manager
\*     tick, and after eliminar_vehiculo, limpiar_vehiculos_completados or
\*     reiniciar_simulacion.
\* ------------------------------------------------------------------------
C1_CargaConVehiculo ==
    \A ll \in Llamadas(grafo, aristas), velocidad \in Velocidades, dt \in DeltaTs :
        LET c == CrearConRespuesta(grafo, aristas, gestor, vehs, ll, velocidad)
        IN \A k \in 0..TicksSuficientes :
              LET s == SimularTicks(c.ar, c.ge, c.vs, dt, k)
                  el == eliminar_vehiculo(s.ar, s.ge, s.vs, gestor.contador_vehiculos + 1)
                  re == reiniciar_simulacion(grafo, s.ar, s.ge, s.vs, motor)
              IN /\ CargaIgualEn(s.ar, s.ge, s.vs)
                 /\ CargaIgualEn(el.ar, el.ge, s.vs)
                 /\ CargaIgualEn(s.ar, limpiar_vehiculos_completados(s.ge), s.vs)
                 /\ CargaIgualEn(re.ar, re.ge, s.vs)

\* the draws crear_vehiculo_aleatorio can make (one stand-in where it
\* makes none)
Sorteos(g) == IF ParesAleatorios(g) = {} THEN {<<0, 0>>} ELSE ParesAleatorios(g)

\* ------------------------------------------------------------------------
\* C21 While pausado is true, actualizar(dt) changes nothing for any dt:
\*     both clocks, the registry and the collections, every vehicle and
\*     every edge's load and weight are the same, and no vehicle is spawned;
\*     here in the current state and with one vehicle on the road.
\* ------------------------------------------------------------------------
C21_PausaCongela ==
    motor.pausado =>
        \A delta_tiempo_real \in DeltaTs, par \in Sorteos(grafo),
           velocidad \in Velocidades :
            /\ actualizar(grafo, aristas, gestor, vehs, motor,
                          delta_tiempo_real, par, velocidad)
                   = [estado |-> "pausado", ar |-> aristas, ge |-> gestor,
                      vs |-> vehs, mo |-> motor]
            /\ \A ll \in Llamadas(grafo, aristas) :
                  LET c == CrearConRespuesta(grafo, aristas, gestor, vehs, ll, velocidad)
                  IN actualizar(grafo, c.ar, c.ge, c.vs, motor,
                                delta_tiempo_real, par, velocidad)
                         = [estado |-> "pausado", ar |-> c.ar, ge |-> c.ge,
                            vs |-> c.vs, mo |-> motor]

\* the engine is paused after it ran, at a moment when a tick would reach
\* the spawn if it were not paused, on a graph with an edge between two nodes
C21_Testigo ==
    /\ motor.pausado
    /\ motor.tiempo_simulacion > 0
    /\ \E delta_tiempo_real \in DeltaTs :
          /\ motor.tiempo_simulacion + delta_tiempo_real - motor.tiempo_ultimo_vehiculo
                 >= TiempoEntreVehiculos
          /\ ParesAleatorios(grafo) # {}
    /\ \E o, d \in NodosDe(grafo) : o # d /\ Alcanzable(grafo, aristas, o, d)

\* the engine with its clock advanced by a tick of delta_tiempo_real
RelojAvanzado(mo, delta_tiempo_real) ==
    [mo EXCEPT !.tiempo_simulacion = @ + delta_tiempo_real * mo.velocidad_simulacion]

\* the spawn conditions at the moment of the check
GeneracionDebida(ge, mo) ==
    /\ Len(LE_obtener_lista(ge.vehiculos_activos)) < MaxVehiculosSimultaneos
    /\ mo.tiempo_simulacion - mo.tiempo_ultimo_vehiculo >= TiempoEntreVehiculos

\* ------------------------------------------------------------------------
\* C22 A non-paused tick calls crear_vehiculo at most once and registers at
\*     most one vehicle, and does so only if, at the moment of the check,
\*     the active count is below max_vehiculos_simultaneos and
\*     tiempo_simulacion - tiempo_ultimo_vehiculo >= tiempo_entre_vehiculos;
\*     with the active list at the ceiling it never does; when a vehicle is
\*     spawned tiempo_ultimo_vehiculo becomes the current tiempo_simulacion,
\*     and a following check less than tiempo_entre_vehiculos later spawns
\*     nothing.
\* ------------------------------------------------------------------------
C22_GeneracionEspaciada ==
    \A delta_tiempo_real \in DeltaTs, par \in Sorteos(grafo), velocidad \in Velocidades :
        LET mo1 == RelojAvanzado(motor, delta_tiempo_real)
            s == generar_vehiculos_automaticos(grafo, aristas, gestor, vehs, mo1,
                                               par, velocidad)
            lleno == [gestor EXCEPT !.vehiculos_activos =
                                        [i \in 1..MaxVehiculosSimultaneos |-> i]]
        IN /\ s.ge.contador_vehiculos \in
                  {gestor.contador_vehiculos, gestor.contador_vehiculos + 1}
           /\ Len(HT_obtener_claves(s.ge.vehiculos))
                  <= Len(HT_obtener_claves(gestor.vehiculos)) + 1
           /\ s.ge # gestor => GeneracionDebida(gestor, mo1)
           /\ s.estado = "ok" => s.mo.tiempo_ultimo_vehiculo = mo1.tiempo_simulacion
           /\ s.estado # "ok" => s.mo = mo1
           /\ generar_vehiculos_automaticos(grafo, aristas, lleno, vehs, mo1,
                                            par, velocidad).ge = lleno
           /\ GeneracionDebida(gestor, mo1) =>
                 \A ll \in {x \in Llamadas(grafo, aristas) : <<x.o, x.d>> = par} :
                     LET c == AnotarGeneracion(
                                  mo1,
                                  CrearConRespuesta(grafo, aristas, gestor, vehs,
                                                    ll, velocidad))
                     IN /\ c.mo.tiempo_ultimo_vehiculo = mo1.tiempo_simulacion
                        /\ Len(HT_obtener_claves(c.ge.vehiculos))
                               = Len(HT_obtener_claves(gestor.vehiculos)) + 1
                        /\ \A dt2 \in {d \in DeltaTs : d < TiempoEntreVehiculos} :
                              generar_vehiculos_automaticos(
                                  grafo, c.ar, c.ge, c.vs,
                                  RelojAvanzado(c.mo, dt2), par, velocidad).estado = "no"

\* on a graph with an edge between two nodes, one tick is too early to
\* spawn and a longer one is not
C22_Testigo ==
    /\ ~motor.pausado
    /\ ParesAleatorios(grafo) # {}
    /\ \E o, d \in NodosDe(grafo) : o # d /\ Alcanzable(grafo, aristas, o, d)
    /\ \E d1, d2 \in DeltaTs :
          /\ ~GeneracionDebida(gestor, RelojAvanzado(motor, d1))
          /\ GeneracionDebida(gestor, RelojAvanzado(motor, d2))

\* ------------------------------------------------------------------------
\* C23 Every analyzer query leaves the graph as it found it on every way of
\*     leaving the call: after identificar_puntos_criticos, after
\*     generar_reporte_trafico and after _identificar_cuellos_botella, by
\*     return or by exception, every edge's bloqueada flag, load and weight
\*     are what they were before the call.
\* ------------------------------------------------------------------------
C23_AnalizadorNoMuta ==
    /\ identificar_puntos_criticos(grafo, aristas).ar = aristas
    /\ generar_reporte_trafico(grafo, aristas).ar = aristas
    /\ identificar_cuellos_botella(grafo, aristas).ar = aristas

\* ------------------------------------------------------------------------
\* C24 An analyzer query called twice in a row, with nothing in between,
\*     returns both times, and returns the same result (same counts, same
\*     ranked elements in the same order); the second call starts from the
\*     edge records the first call left.  (obtener_estadisticas reads only:
\*     its two results are the same function of the same graph.)
\* ------------------------------------------------------------------------
C24_ConsultasIdempotentes ==
    /\ \E p1 \in {identificar_puntos_criticos(grafo, aristas)} :
          /\ p1.estado = "ok"
          /\ identificar_puntos_criticos(grafo, p1.ar).estado = "ok"
          /\ identificar_puntos_criticos(grafo, p1.ar).puntos = p1.puntos
    /\ \E r1 \in {generar_reporte_trafico(grafo, aristas)} :
          /\ r1.estado = "ok"
          /\ generar_reporte_trafico(grafo, r1.ar).estado = "ok"
          /\ generar_reporte_trafico(grafo, r1.ar).reporte = r1.reporte

\* the ticks too short to reach the spawn from a clock at 0
TicksSinGeneracion == {d \in DeltaTs : d < TiempoEntreVehiculos}

\* ------------------------------------------------------------------------
\* C25 After a non-paused actualizar returns, every non-blocked edge of the
\*     graph has peso_actual = peso_base * (1 + 2 * carga / max(cap, 1)) for
\*     the load it has at the end of the tick: (a) for a tick in the current
\*     state, (b) for a tick that moves a vehicle after an edge was blocked,
\*     the vehicle moved on and the edge was unblocked, which leaves a stale
\*     weight before the tick, (c) for a tick that spawns a vehicle, which
\*     is advanced in the same tick before the weights are recomputed.
\* ------------------------------------------------------------------------
C25_PesosAlFinalDelTick ==
    \A velocidad \in Velocidades :
        /\ \A dt \in DeltaTs, par \in Sorteos(grafo) :
              \E t \in {actualizar(grafo, aristas, gestor, vehs,
                                   [motor EXCEPT !.pausado = FALSE],
                                   dt, par, velocidad)} :
                  t.estado = "ok" => PesoSegunCargaEn(t.ar)
        /\ \A ll \in Llamadas(grafo, aristas), dt \in TicksSinGeneracion,
              e \in AristasDe(grafo), k \in 0..TicksSuficientes :
              LET id_origen == aristas[e].origen.id
                  id_destino == aristas[e].destino.id
                  c == CrearConRespuesta(grafo, aristas, gestor, vehs, ll, velocidad)
                  s == SimularTicks(
                           bloquear_arista(grafo, c.ar, id_origen, id_destino).ar,
                           c.ge, c.vs, dt, k)
                  t == actualizar(grafo,
                                  desbloquear_arista(grafo, s.ar, id_origen, id_destino).ar,
                                  s.ge, s.vs, MotorSimulacion, dt, <<0, 0>>, velocidad)
              IN /\ t.estado = "ok"
                 /\ PesoSegunCargaEn(t.ar)
        /\ \A ll \in Llamadas(grafo, aristas), dt \in DeltaTs :
              LET mo1 == RelojAvanzado(MotorSimulacion, dt)
                  c == CrearConRespuesta(grafo, aristas, gestor, vehs, ll, velocidad)
                  t == MoverTrasGenerar(grafo, dt, AnotarGeneracion(mo1, c))
                  id == gestor.contador_vehiculos + 1
              IN /\ t.estado = "ok"
                 /\ PesoSegunCargaEn(t.ar)
                 /\ (c.vs[id].estado = "viajando" /\ c.vs[id].ruta_aristas # << >>)
                        => t.vs[id].tiempo_viaje = dt

\* a vehicle has left an edge between two nodes while the edge was blocked,
\* the edge was unblocked with the weight of load 1 and load 0, and the next
\* tick gives it the weight of its load
C25_Testigo ==
    \E ll \in Llamadas(grafo, aristas), velocidad \in Velocidades,
       dt \in TicksSinGeneracion, k \in 1..TicksSuficientes :
        /\ ll.o # ll.d
        /\ Len(ll.r.ruta_aristas) = 1
        /\ LET c == CrearConRespuesta(grafo, aristas, gestor, vehs, ll, velocidad)
               s == SimularTicks(bloquear_arista(grafo, c.ar, ll.o, ll.d).ar,
                                 c.ge, c.vs, dt, k)
               des == desbloquear_arista(grafo, s.ar, ll.o, ll.d).ar
           IN /\ ~PesoSegunCargaEn(des)
              /\ PesoSegunCargaEn(actualizar(grafo, des, s.ge, s.vs, MotorSimulacion,
                                             dt, <<0, 0>>, velocidad).ar)

\* the ticks offered to one vehicle: those of the engine and one of ten
\* minutes, in which every speed covers several edges
TicksDeCualquierTamano == DeltaTs \cup {600}

\* ------------------------------------------------------------------------
\* C26 One call of actualizar_posicion moves a vehicle by at most one edge
\*     of its route whatever dt is: indice_ruta_actual grows by 0 or 1, a
\*     completed edge leaves progreso_arista = 0 (the excess is discarded),
\*     and afterwards 0 <= progreso_arista < 1 and
\*     0 <= indice_ruta_actual <= len(ruta_aristas).
\* ------------------------------------------------------------------------
C26_UnaAristaPorTick ==
    \A ll \in Llamadas(grafo, aristas), velocidad \in Velocidades,
       dt \in DeltaTs, k \in 0..TicksSuficientes :
        LET c == CrearConRespuesta(grafo, aristas, gestor, vehs, ll, velocidad)
            a == EstadoTrasTicks(c.vs[gestor.contador_vehiculos + 1], c.ar, dt, k)
        IN \A delta_tiempo \in TicksDeCualquierTamano :
              LET v == actualizar_posicion(a.v, a.ar, delta_tiempo).v
              IN /\ v.indice_ruta_actual \in
                        {a.v.indice_ruta_actual, a.v.indice_ruta_actual + 1}
                 /\ v.indice_ruta_actual = a.v.indice_ruta_actual + 1
                        => v.progreso_arista = REntero(0)
                 /\ ~RMenor(v.progreso_arista, REntero(0))
                 /\ RMenor(v.progreso_arista, REntero(1))
                 /\ v.indice_ruta_actual >= 0
                 /\ v.indice_ruta_actual <= Len(v.ruta_aristas)

\* a vehicle part of the way along the first of two edges between distinct
\* nodes gets a tick in which it would cover both edges several times over,
\* and is at the start of the second edge afterwards
C26_Testigo ==
    \E ll \in Llamadas(grafo, aristas), velocidad \in Velocidades, dt \in DeltaTs :
        /\ Len(ll.r.ruta_aristas) = 2
        /\ \A i \in 1..2 : aristas[ll.r.ruta_aristas[i]].origen.id
                              # aristas[ll.r.ruta_aristas[i]].destino.id
        /\ LET c == CrearConRespuesta(grafo, aristas, gestor, vehs, ll, velocidad)
               a == EstadoTrasTicks(c.vs[gestor.contador_vehiculos + 1], c.ar, dt, 1)
               v == actualizar_posicion(a.v, a.ar, 600).v
           IN /\ a.v.estado = "viajando"
              /\ a.v.indice_ruta_actual = 0
              /\ RMenor(REntero(0), a.v.progreso_arista)
              /\ v.indice_ruta_actual = 1
              /\ v.progreso_arista = REntero(0)

RECURSIVE LlegaAlOrigen(_, _, _, _)
\* following the predecessors f from nodo reaches origen in at most n steps
LlegaAlOrigen(f, nodo, origen, n) ==
    IF nodo = origen THEN TRUE
    ELSE IF n = 0 \/ f[nodo] = None THEN FALSE
    ELSE LlegaAlOrigen(f, f[nodo].val, origen, n - 1)

\* The predecessors the loop of encontrar_ruta_mas_corta can leave for a
\* query from origen: the origin has none, a predecessor of v is the start
\* of an edge into v that obtener_vecinos offers, and the predecessors of
\* every node that has one lead back to the origin.
PredecesoresPosibles(g, ar, origen) ==
    {f \in [NodosDe(g) -> {None} \cup {Some(n) : n \in NodosDe(g)}] :
        /\ f[origen] = None
        /\ \A v \in NodosDe(g) :
              f[v] # None =>
                  /\ \E e \in AristasVivas(g, ar) :
                        ar[e].origen.id = f[v].val /\ ar[e].destino.id = v
                  /\ LlegaAlOrigen(f, v, origen, Cardinality(NodosDe(g)))}

RECURSIVE TablaDesde(_, _, _)
\* the HashTable predecesores that holds f: one pair per node, inserted in
\* the order of grafo.nodos.obtener_claves()
TablaDesde(f, claves, i) ==
    IF i = 0 THEN HT_nueva
    ELSE HT_insertar(TablaDesde(f, claves, i - 1), claves[i], f[claves[i]]).t

\* the edge records as they are and after bloquear_arista on one connection
Bloqueos(g, ar) ==
    {ar} \cup {bloquear_arista(g, ar, ar[e].origen.id, ar[e].destino.id).ar :
                   e \in AristasDe(g)}

RutaBienFormada(ar, r, id_origen, id_destino) ==
    /\ r.ruta_nodos # << >>
    /\ r.ruta_nodos[1] = id_origen
    /\ r.ruta_nodos[Len(r.ruta_nodos)] = id_destino
    /\ Cardinality(SeqASet(r.ruta_nodos)) = Len(r.ruta_nodos)
    /\ Len(r.ruta_aristas) = Len(r.ruta_nodos) - 1
    /\ \A i \in 1..Len(r.ruta_aristas) :
          /\ ar[r.ruta_aristas[i]].origen.id = r.ruta_nodos[i]
          /\ ar[r.ruta_aristas[i]].destino.id = r.ruta_nodos[i + 1]

\* ------------------------------------------------------------------------
\* C27 Every found route is well formed: the nodes start at the origin, end
\*     at the destination and repeat no node, there is one edge fewer than
\*     nodes, and the i-th edge goes from the i-th node to the (i+1)-th.
\*     Stated for _reconstruir_ruta on every table of predecessors the search
\*     can leave, with no connection or one connection blocked, and for
\*     encontrar_ruta_mas_corta itself whenever it returns a route.
\* ------------------------------------------------------------------------
C27_RutaBienFormada ==
    /\ \A id_origen, id_destino \in IdsConsulta :
          LET r == encontrar_ruta_mas_corta(grafo, aristas, id_origen, id_destino)
          IN (r.estado = "ok" /\ r.ruta_nodos # << >>)
                => RutaBienFormada(aristas, r, id_origen, id_destino)
    /\ \A ar \in Bloqueos(grafo, aristas), id_origen \in NodosDe(grafo) :
          \A f \in PredecesoresPosibles(grafo, ar, id_origen) :
              \A id_destino \in {d \in NodosDe(grafo) : d = id_origen \/ f[d] # None} :
                  RutaBienFormada(ar,
                      reconstruir_ruta(grafo, ar,
                          TablaDesde(f, HT_obtener_claves(grafo.nodos),
                                     Len(HT_obtener_claves(grafo.nodos))),
                          id_origen, id_destino),
                      id_origen, id_destino)

\* the predecessors 3 <- 2 <- 1 give the route 1, 2, 3 over two edges
C27_Testigo ==
    /\ NodosDe(grafo) = {1, 2, 3}
    /\ \E f \in PredecesoresPosibles(grafo, aristas, 1) :
          /\ f[3] = Some(2)
          /\ f[2] = Some(1)
          /\ LET r == reconstruir_ruta(grafo, aristas,
                          TablaDesde(f, HT_obtener_claves(grafo.nodos), 3), 1, 3)
             IN /\ r.ruta_nodos = <<1, 2, 3>>
                /\ Len(r.ruta_aristas) = 2
                /\ RutaBienFormada(aristas, r, 1, 3)

RECURSIVE ParesBidireccionales(_, _)
\* <<e, inversa>> for every two-way connection ever added: agregar_arista
\* creates the two records one after the other, and only the first record
\* of a one-way connection has bidireccional = False
ParesBidireccionales(ar, i) ==
    IF i > Len(ar) THEN {}
    ELSE IF ar[i].bidireccional
    THEN {<<i, i + 1>>} \cup ParesBidireccionales(ar, i + 2)
    ELSE ParesBidireccionales(ar, i + 1)

\* ------------------------------------------------------------------------
\* C28 The two records of a two-way connection are independent after their
\*     creation: agregar_arista creates them with the same weight, unblocked
\*     and with load 0; bloquear_arista(a, b) and desbloquear_arista(a, b)
\*     change the bloqueada flag of one record from a to b and nothing else,
\*     so the record b -> a of the pair keeps its flag, load and weight; and
\*     the load a vehicle puts on and takes from the edges of its route
\*     changes no record outside the route.
\* ------------------------------------------------------------------------
C28_InversaIntacta ==
    /\ \A id_origen, id_destino \in NodosDe(grafo), peso \in Pesos :
          LET r == agregar_arista(grafo, aristas, id_origen, id_destino, peso, TRUE)
              e == Len(aristas) + 1
          IN /\ Len(r.ar) = e + 1
             /\ r.ar[e + 1].origen = r.ar[e].destino
             /\ r.ar[e + 1].destino = r.ar[e].origen
             /\ r.ar[e + 1].peso_base = r.ar[e].peso_base
             /\ r.ar[e + 1].peso_actual = r.ar[e].peso_actual
             /\ ~r.ar[e].bloqueada /\ ~r.ar[e + 1].bloqueada
             /\ r.ar[e].carga_trafico = 0 /\ r.ar[e + 1].carga_trafico = 0
    /\ \A id_origen, id_destino \in IdsConsulta :
          \A r \in {bloquear_arista(grafo, aristas, id_origen, id_destino),
                    desbloquear_arista(grafo, aristas, id_origen, id_destino)} :
              /\ Len(r.ar) = Len(aristas)
              /\ \A x \in 1..Len(aristas) :
                    r.ar[x] # aristas[x] =>
                        /\ x = PrimeraArista(aristas,
                                   obtener_aristas_nodo(grafo, id_origen), 1, id_destino)
                        /\ [r.ar[x] EXCEPT !.bloqueada = aristas[x].bloqueada]
                               = aristas[x]
    /\ \A p \in ParesBidireccionales(aristas, 1) :
          \A r \in {bloquear_arista(grafo, aristas,
                                    aristas[p[1]].origen.id, aristas[p[1]].destino.id),
                    desbloquear_arista(grafo, aristas,
                                    aristas[p[1]].origen.id, aristas[p[1]].destino.id)} :
              /\ r.ar[p[2]] = aristas[p[2]]
              /\ aristas[p[1]].origen.id # aristas[p[1]].destino.id =>
                    /\ bloquear_arista(grafo, aristas, aristas[p[2]].origen.id,
                                       aristas[p[2]].destino.id).ar[p[1]] = aristas[p[1]]
                    /\ desbloquear_arista(grafo, aristas, aristas[p[2]].origen.id,
                                       aristas[p[2]].destino.id).ar[p[1]] = aristas[p[1]]
    /\ \A ll \in Llamadas(grafo, aristas), velocidad \in Velocidades,
          dt \in DeltaTs, k \in 0..TicksSuficientes :
          LET c == CrearConRespuesta(grafo, aristas, gestor, vehs, ll, velocidad)
              s == SimularTicks(c.ar, c.ge, c.vs, dt, k)
          IN \A x \in 1..Len(aristas) :
                x \notin SeqASet(ll.r.ruta_aristas) => s.ar[x] = aristas[x]

\* a two-way connection between two nodes whose first record is blocked and
\* whose second is not, while a vehicle sent over the second record alone
\* changes the load and the weight of the second record only
C28_Testigo ==
    \E p \in ParesBidireccionales(aristas, 1) :
        /\ p[1] \in AristasDe(grafo)
        /\ aristas[p[1]].origen.id # aristas[p[1]].destino.id
        /\ aristas[p[1]].bloqueada
        /\ ~aristas[p[2]].bloqueada
        /\ \E ll \in Llamadas(grafo, aristas), velocidad \in Velocidades :
              /\ ll.r.ruta_aristas = <<p[2]>>
              /\ LET c == CrearConRespuesta(grafo, aristas, gestor, vehs, ll, velocidad)
                 IN /\ c.ar[p[2]].carga_trafico = 1
                    /\ c.ar[p[2]].peso_actual # aristas[p[2]].peso_actual
                    /\ c.ar[p[1]] = aristas[p[1]]

\* what may happen between two vehicles: nothing,
\* limpiar_vehiculos_completados or reiniciar_simulacion; [ar, ge]
Entremedias == {"nada", "limpiar", "reiniciar"}

TrasEntremedias(op, g, ar, ge, vs) ==
    IF op = "limpiar" THEN [ar |-> ar, ge |-> limpiar_vehiculos_completados(ge)]
    ELSE IF op = "reiniciar"
    THEN [ar |-> reiniciar_simulacion(g, ar, ge, vs, MotorSimulacion).ar,
          ge |-> reiniciar_simulacion(g, ar, ge, vs, MotorSimulacion).ge]
    ELSE [ar |-> ar, ge |-> ge]

\* the statistics after the run s are those of the vehicles of ids that
\* have arrived: total_completados counts them and tiempo_promedio_viaje is
\* the mean of their tiempo_viaje
PromedioDe(s, ids) ==
    LET llegados == {i \in SeqASet(ids) : s.vs[i].estado = "arribado"}
        suma == (IF ids[1] \in llegados THEN s.vs[ids[1]].tiempo_viaje ELSE 0)
                + (IF ids[2] \in llegados THEN s.vs[ids[2]].tiempo_viaje ELSE 0)
    IN llegados # {} =>
          /\ s.ge.estadisticas.total_completados = Cardinality(llegados)
          /\ s.ge.estadisticas.tiempo_promedio_viaje = Rac(suma, Cardinality(llegados))

CuellosPorDefinicion(g, ar) ==
    {e \in AristasDe(g) :
        LET d == DistanciasMinimas(g, [ar EXCEPT ![e].bloqueada = TRUE],
                                   ar[e].origen.id)[ar[e].destino.id]
        IN d = Infinito \/ d > 2 * ar[e].peso_actual}

\* ------------------------------------------------------------------------
\* C30 _identificar_cuellos_botella returns, in the order of
\*     obtener_todas_aristas and cut to the first 5, exactly the edges
\*     (blocked or not) for which, with the edge blocked, no path leads from
\*     its origin to its destination or the shortest one is longer than
\*     twice the edge's peso_actual.
\* ------------------------------------------------------------------------
C30_CuellosDeBotella ==
    \E r \in {identificar_cuellos_botella(grafo, aristas)} :
        /\ r.estado = "ok"
        /\ r.cuellos = PrimerosCinco(FiltrarSeq(obtener_todas_aristas(grafo),
                                                CuellosPorDefinicion(grafo, aristas), 1))

\* the number of ordered pairs (s, t) of distinct nodes whose computed
\* shortest path has the node n strictly inside
ParesATraves(g, ar, n) ==
    Cardinality({p \in NodosDe(g) \X NodosDe(g) :
        /\ p[1] # p[2]
        /\ \E r \in {encontrar_ruta_mas_corta(g, ar, p[1], p[2])} :
              /\ r.estado = "ok"
              /\ \E k \in 2..(Len(r.ruta_nodos) - 1) : r.ruta_nodos[k] = n})

\* the position of the node id in obtener_nodos_lista, 0 when absent
PosicionDelNodo(g, id) ==
    LET nodos == obtener_nodos_lista(g)
    IN IF \E i \in 1..Len(nodos) : nodos[i].id = id
       THEN CHOOSE i \in 1..Len(nodos) : nodos[i].id = id
       ELSE 0

\* ------------------------------------------------------------------------
\* C31 The centrality ranking returns at most 5 (node, counter) pairs in
\*     non-increasing order of the counter, nodes of equal counter in the
\*     order of the node enumeration; each counter is the number of ordered
\*     pairs of distinct nodes whose computed shortest path has the node
\*     strictly inside; and no node left out has a larger counter than a
\*     node returned.
\* ------------------------------------------------------------------------
C31_RankingDeCentralidad ==
    \E r \in {calcular_centralidad_intermediacion(grafo, aristas)} :
        /\ r.estado = "ok"
        /\ Len(r.lista) <= 5
        /\ Len(r.lista) = Min(5, Cardinality(NodosDe(grafo)))
        /\ \A i \in 1..Len(r.lista) :
              /\ r.lista[i].elemento \in NodosDe(grafo)
              /\ r.lista[i].valor =
                     REntero(ParesATraves(grafo, aristas, r.lista[i].elemento))
              /\ \A j \in (i + 1)..Len(r.lista) :
                    /\ ~RMenor(r.lista[i].valor, r.lista[j].valor)
                    /\ r.lista[i].elemento # r.lista[j].elemento
                    /\ r.lista[i].valor = r.lista[j].valor
                          => PosicionDelNodo(grafo, r.lista[i].elemento)
                                 < PosicionDelNodo(grafo, r.lista[j].elemento)
              /\ \A n \in NodosDe(grafo) \ {r.lista[k].elemento : k \in 1..Len(r.lista)} :
                    ~RMenor(r.lista[i].valor, REntero(ParesATraves(grafo, aristas, n)))

RECURSIVE SumaDePesos(_, _, _)
\* the sum of peso_actual over the edges ruta[i..]
SumaDePesos(ar, ruta, i) ==
    IF i > Len(ruta) THEN 0
    ELSE ar[ruta[i]].peso_actual + SumaDePesos(ar, ruta, i + 1)

\* the least peso_actual among the edges from u to v that obtener_vecinos
\* offers
MenorPesoEntre(g, ar, u, v) ==
    LET pesos == {ar[e].peso_actual :
                     e \in {x \in AristasVivas(g, ar) :
                              ar[x].origen.id = u /\ ar[x].destino.id = v}}
    IN CHOOSE p \in pesos : \A q \in pesos : p <= q

\* the predecessors of shortest paths from origen: those of
\* PredecesoresPosibles in which every step is a cheapest edge on a shortest
\* path, which is what the relaxation of encontrar_ruta_mas_corta records
PredecesoresDeMinimos(g, ar, origen) ==
    {f \in PredecesoresPosibles(g, ar, origen) :
        \A v \in NodosDe(g) :
            f[v] # None =>
                DistanciasMinimas(g, ar, origen)[v]
                    = DistanciasMinimas(g, ar, origen)[f[v].val]
                          + MenorPesoEntre(g, ar, f[v].val, v)}

ColeccionesSanas(ge, vs) ==
    LET activos == LE_obtener_lista(ge.vehiculos_activos)
        completados == LE_obtener_lista(ge.vehiculos_completados)
    IN /\ SeqASet(activos) \cap SeqASet(completados) = {}
       /\ Cardinality(SeqASet(activos)) = Len(activos)
       /\ Cardinality(SeqASet(completados)) = Len(completados)
       /\ \A id \in SeqASet(activos) \cup SeqASet(completados) :
             /\ HT_tiene(ge.vehiculos, vs[id].id)
             /\ HT_valor(ge.vehiculos, vs[id].id) = id

Horizonte == 24

\* a frame of the main loop can run
TicPosible == ~motor.pausado /\ motor.tiempo_simulacion < Horizonte

ActualizarSiempre ==
    /\ TicPosible
    /\ \E delta_tiempo_real \in DeltaTs, velocidad \in Velocidades,
          par \in Sorteos(grafo) :
          \E r \in {actualizar(grafo, aristas, gestor, vehs, motor,
                               delta_tiempo_real, par, velocidad)} :
             /\ aristas' = r.ar
             /\ gestor' = r.ge
             /\ vehs' = r.vs
             /\ motor' = r.mo
             /\ excepcion' = IF r.estado = "TypeError" THEN "TypeError" ELSE ""
    /\ UNCHANGED grafo

NextVivo ==
    \/ AgregarNodo
    \/ AgregarArista
    \/ ActualizarSiempre

\* A frame of the main loop as the clock shows it: actualizar was called
\* while not paused and tiempo_simulacion moved on by dt times the velocity
\* of the simulation; tiempo_ultimo_vehiculo is the old one or the new
\* clock.  Of the steps of NextVivo exactly those of ActualizarSiempre are
\* frames, and a frame can be taken exactly when TicPosible holds.
Fotograma ==
    /\ TicPosible
    /\ \E delta_tiempo_real \in DeltaTs :
          \E ultimo \in {motor.tiempo_ultimo_vehiculo,
                         RelojAvanzado(motor, delta_tiempo_real).tiempo_simulacion} :
             motor' = [RelojAvanzado(motor, delta_tiempo_real)
                          EXCEPT !.tiempo_ultimo_vehiculo = ultimo]

\* The main loop calls actualizar once per frame for as long as the program
\* runs: weak fairness of the frames, each of which changes motor.
SpecVivo ==
    /\ Init
    /\ [][NextVivo]_vars
    /\ WF_motor(Fotograma)

\* ------------------------------------------------------------------------
\* C34 Auto-spawning never stalls: while the simulation is not paused, the
\*     graph has two nodes and ticks keep occurring, a further vehicle is
\*     spawned whatever the edges are.  Within the horizon: from every state
\*     with two nodes, n vehicles created so far and a spawn interval of
\*     clock left, the run leads to a state with more than n vehicles
\*     created.
\* ------------------------------------------------------------------------
C34_GeneracionSinFin ==
    \A n \in 0..(Horizonte \div TiempoEntreVehiculos - 1) :
        (/\ Len(obtener_nodos_lista(grafo)) >= 2
         /\ gestor.estadisticas.total_creados = n
         /\ motor.tiempo_simulacion + TiempoEntreVehiculos <= Horizonte)
            ~> (gestor.estadisticas.total_creados > n)

\* the traveling vehicle v has its two end nodes and the edges of its route
\* from indice_ruta_actual on in the graph g
VehiculoEnElGrafo(g, v) ==
    v.estado = "viajando" =>
        /\ v.nodo_origen.id \in NodosDe(g)
        /\ v.nodo_destino.id \in NodosDe(g)
        /\ \A i \in (v.indice_ruta_actual + 1)..Len(v.ruta_aristas) :
              v.ruta_aristas[i] \in AristasDe(g)

====
